---- MODULE Spec2Model ----
(***************************************************************************)
(* The storage layer of FocusTracker: the IStorage contract and its two    *)
(* implementations, MemStorage (src/server/storage.ts) and DBStorage       *)
(* (src/server/dbStorage.ts), over the entities of src/shared/schema.ts.   *)
(*                                                                         *)
(* One process uses one backend (storage.ts:305), so `backend` is chosen   *)
(* in Init and never changes.  A storage call is one action, and the call  *)
(* and what it returned are kept in `last`; where handlers interleave, a   *)
(* call is one action per await and `calls` holds the calls in flight.     *)
(*                                                                         *)
(* Encodings.  A value that may be undefined is a sequence: <<>> is        *)
(* undefined, <<v>> is v.  A JavaScript Map is the sequence of its         *)
(* entries in insertion order.  A table is the sequence of its rows in     *)
(* insertion order.  A subtask description is the sequence of its          *)
(* characters, so that trim() is computed and not assumed.  A partial      *)
(* object (Partial<Task>, Partial<Category>) is a record holding only the  *)
(* fields the caller sent.                                                 *)
(***************************************************************************)
EXTENDS Integers, Sequences, FiniteSets, TLC

VARIABLES
    backend,              \* "mem" or "db": storage.ts:305
    categories,           \* MemStorage.categories: Map<number, Category>
    categorySlugToIdMap,  \* MemStorage.categorySlugToIdMap: Map<string, number>
    tasks,                \* MemStorage.tasks: Map<number, Task>
    subtasks,             \* MemStorage.subtasks: Map<number, Subtask>
    categoryCurrentId,    \* MemStorage.categoryCurrentId
    taskCurrentId,        \* MemStorage.taskCurrentId
    subtaskCurrentId,     \* MemStorage.subtaskCurrentId
    dbCategories,         \* table categories (schema.ts:6-11)
    dbTasks,              \* table tasks (schema.ts:21-32)
    dbSubtasks,           \* table subtasks (schema.ts:35-40)
    dbCategoriesSerial,   \* next value of categories.id (serial)
    dbTasksSerial,        \* next value of tasks.id (serial)
    dbSubtasksSerial,     \* next value of subtasks.id (serial)
    seedRuns,             \* how often the seeding routine has run on this store
    clock,                \* the wall clock read by new Date() / defaultNow()
    last,                 \* the last storage call: [op, args, threw, result]
    calls                 \* per request handler, the storage call it is in:
                          \* its position (pc) and its local variables

memVars == <<categories, categorySlugToIdMap, tasks, subtasks,
             categoryCurrentId, taskCurrentId, subtaskCurrentId>>
dbVars == <<dbCategories, dbTasks, dbSubtasks,
            dbCategoriesSerial, dbTasksSerial, dbSubtasksSerial>>
vars == <<backend, memVars, dbVars, seedRuns, clock, last, calls>>

(***************************************************************************)
(* Bounds of the model.                                                    *)
(***************************************************************************)
MaxNewCategories == 2   \* createCategory calls beyond the six defaults
MaxTasks == 1           \* task ids handed out
MaxSubtasks == 2        \* subtask ids handed out
MaxTime == 1            \* last clock reading
MaxSeedRuns == 2        \* runs of the seeding routine on one store (SpecSeed)
MaxListTasks == 3       \* task ids handed out under SpecLists

(***************************************************************************)
(* JavaScript values.                                                      *)
(***************************************************************************)
Null == "null"

\* obj.field || d for a string field: undefined (the field is not there),
\* null and "" are falsy.
OrDefault(obj, field, d) ==
    IF field \in DOMAIN obj /\ obj[field] \notin {Null, ""}
    THEN obj[field] ELSE d

\* obj.field || false for a boolean field.
OrFalse(obj, field) == field \in DOMAIN obj /\ obj[field]

\* obj.field !== undefined ? obj.field : d
DefinedOr(obj, field, d) == IF field \in DOMAIN obj THEN obj[field] ELSE d

\* { ...existing, ...update }: the fields of both, update's value where both
\* have the field.
Spread(existing, update) == update @@ existing

Whitespace == {" ", "\t", "\n"}

\* String.prototype.trim on a sequence of characters.
RECURSIVE TrimStart(_)
TrimStart(s) ==
    IF s # <<>> /\ Head(s) \in Whitespace THEN TrimStart(Tail(s)) ELSE s

RECURSIVE TrimEnd(_)
TrimEnd(s) ==
    IF s # <<>> /\ s[Len(s)] \in Whitespace
    THEN TrimEnd(SubSeq(s, 1, Len(s) - 1)) ELSE s

Trim(s) == TrimEnd(TrimStart(s))

\* A string is truthy when it is not empty.
Truthy(s) == s # <<>>

(***************************************************************************)
(* Map<K, V>: entries [key, val] in insertion order.                       *)
(***************************************************************************)
MapHas(m, k) == \E i \in 1..Len(m) : m[i].key = k

MapGet(m, k) ==
    IF MapHas(m, k)
    THEN <<m[CHOOSE i \in 1..Len(m) : m[i].key = k].val>>
    ELSE <<>>

\* set() keeps the place of a key that is already there and appends a new one.
MapSet(m, k, v) ==
    IF MapHas(m, k)
    THEN [i \in 1..Len(m) |-> IF m[i].key = k THEN [key |-> k, val |-> v] ELSE m[i]]
    ELSE Append(m, [key |-> k, val |-> v])

MapDelete(m, k) ==
    LET Keep(e) == e.key # k IN SelectSeq(m, Keep)

MapValues(m) == [i \in 1..Len(m) |-> m[i].val]

Range(s) == {s[i] : i \in 1..Len(s)}

(***************************************************************************)
(* shared/schema.ts                                                        *)
(***************************************************************************)
defaultCategories == <<
    [slug |-> "work", name |-> "Work Projects", color |-> "#5E81AC"],
    [slug |-> "learning", name |-> "Learning", color |-> "#88C0D0"],
    [slug |-> "health", name |-> "Health & Fitness", color |-> "#A3BE8C"],
    [slug |-> "personal", name |-> "Personal Projects", color |-> "#BF616A"],
    [slug |-> "reading", name |-> "Reading", color |-> "#3B4252"],
    [slug |-> "reflection", name |-> "Reflection", color |-> "#2E3440"] >>

DefaultSlugs == {defaultCategories[i].slug : i \in 1..Len(defaultCategories)}

(***************************************************************************)
(* Inputs of the calls.                                                    *)
(***************************************************************************)
CategoryInputs == {
    [slug |-> "x", name |-> "X", color |-> "#112233"],
    [slug |-> "work", name |-> "Work 2", color |-> "#000000"] }

CategoryUpdates == { [color |-> "#FFFFFF"], [slug |-> "x"] }

CategoryIdInputs == {1, 7}

TaskInputs == {
    [name |-> "Ship spec", briefDescription |-> "b", categorySlug |-> "work",
     frequency |-> "weekly", dueDate |-> "d1"],
    [name |-> "Run", briefDescription |-> "b", detailedDescription |-> "long",
     categorySlug |-> "x", frequency |-> "daily", dueDate |-> "d2",
     priority |-> "high", completed |-> TRUE] }

\* The PATCH route hands req.body to updateTask unvalidated (routes.ts:95-96),
\* so a partial may name any field of Task.
TaskUpdates == {
    [completed |-> TRUE],
    [name |-> "Renamed", createdAt |-> 0],
    [id |-> 2] }

Draft == <<"D">>
Review == <<" ", "R">>
Blank == <<" ">>
Empty == <<>>

DescriptionInputs == { <<>>, <<Draft, Empty>>, <<Blank, Review>> }

\* Tasks for the list reads: two frequencies, and a category that is never
\* created.
ListTaskInputs == {
    [name |-> "Stretch", briefDescription |-> "b", categorySlug |-> "health",
     frequency |-> "daily", dueDate |-> "d1"],
    [name |-> "Plan", briefDescription |-> "b", categorySlug |-> "nowhere",
     frequency |-> "weekly", dueDate |-> "d2"] }

ListTaskUpdates == { [frequency |-> "weekly"], [completed |-> TRUE] }

ListTaskIdInputs == {1, 2}

Frequencies == {"daily", "weekly"}

TaskIdInputs == {1, 2}
SubtaskIdInputs == {1}

(***************************************************************************)
(* MemStorage: reads.                                                      *)
(***************************************************************************)
MemGetCategories == MapValues(categories)

\* MemGetCategory with a fault: a slug that is not found resolves to the
\* first category.
MemGetCategoryOrFirst(slug) ==
    LET id == MapGet(categorySlugToIdMap, slug)
    IN  IF id = <<>> \/ id[1] = 0
        THEN (IF categories = <<>> THEN <<>> ELSE <<categories[1].val>>)
        ELSE MapGet(categories, id[1])

MemGetCategory(slug) ==
    LET id == MapGet(categorySlugToIdMap, slug)
    IN  IF id = <<>> \/ id[1] = 0 THEN <<>> ELSE MapGet(categories, id[1])

MemGetSubtasks(taskId) ==
    LET Owned(s) == s.taskId = taskId IN SelectSeq(MapValues(subtasks), Owned)

\* { ...task, subtasks, category }
MemEnrich(task, taskSubtasks) ==
    Spread(task, [subtasks |-> taskSubtasks,
                  category |-> MemGetCategory(task.categorySlug)])

MemGetTask(id) ==
    LET task == MapGet(tasks, id)
    IN  IF task = <<>> THEN <<>> ELSE <<MemEnrich(task[1], MemGetSubtasks(id))>>

MemGetTasks ==
    LET list == MapValues(tasks)
    IN  [i \in 1..Len(list) |-> MemEnrich(list[i], MemGetSubtasks(list[i].id))]

\* MemGetTasksByFrequency with a fault: the filter is left out.
MemGetTasksByFrequencyUnfiltered(frequency) == MemGetTasks

MemGetTasksByFrequency(frequency) ==
    LET Wanted(t) == t.frequency = frequency
        list == SelectSeq(MapValues(tasks), Wanted)
    IN  [i \in 1..Len(list) |-> MemEnrich(list[i], MemGetSubtasks(list[i].id))]

(***************************************************************************)
(* Calls in flight.  A storage method is an async function: it runs without *)
(* interruption up to an await, and other handlers run while it waits.     *)
(* calls[h] is the call handler h is in: op and args, pc (the await it     *)
(* waits at; "done" once it has returned or thrown) and the method's local *)
(* variables.                                                              *)
(***************************************************************************)
Handlers == {1, 2}

Idle == [op |-> "idle", pc |-> "idle"]

\* The handler is in no call: it can start one.
Free(h) == calls[h].pc \in {"idle", "done"}

InFlight(h, op, pc) == calls[h].op = op /\ calls[h].pc = pc

\* The call goes on to its next await.
Await(h, call) ==
    /\ calls' = [calls EXCEPT ![h] = call]
    /\ UNCHANGED last

\* The call returns or throws.
Finish(h, call, threw, result) ==
    /\ calls' = [calls EXCEPT ![h] =
                    Spread(call, [pc |-> "done", threw |-> threw, result |-> result])]
    /\ last' = [op |-> call.op, args |-> call.args, threw |-> threw, result |-> result]

(***************************************************************************)
(* MemStorage: category writes.                                            *)
(***************************************************************************)
\* A call that runs from its first line to its return with no other handler
\* in between: it is never one of the calls in flight.
Called(op, args, threw, result) ==
    /\ last' = [op |-> op, args |-> args, threw |-> threw, result |-> result]
    /\ UNCHANGED calls

\* The constructor starts initializeDefaultCategories (storage.ts:69).  None
\* of its awaits waits for I/O, so the six createCategory calls are done
\* before the first request handler can run.
MemReady == backend = "mem" /\ seedRuns > 0

\* MemCreateCategoryIn with a fault: the slug index is not updated.
MemCreateCategoryInUnindexed(st, category) ==
    LET id == st.categoryCurrentId
    IN  [categoryCurrentId |-> id + 1,
         categories |-> MapSet(st.categories, id, Spread(category, [id |-> id])),
         categorySlugToIdMap |-> st.categorySlugToIdMap]

\* createCategory on the three category fields of the store.
MemCreateCategoryIn(st, category) ==
    LET id == st.categoryCurrentId
        newCategory == Spread(category, [id |-> id])
    IN  [categoryCurrentId |-> id + 1,
         categories |-> MapSet(st.categories, id, newCategory),
         categorySlugToIdMap |-> MapSet(st.categorySlugToIdMap, category.slug, id)]

MemCategoryStore ==
    [categoryCurrentId |-> categoryCurrentId, categories |-> categories,
     categorySlugToIdMap |-> categorySlugToIdMap]

MemSetCategoryStore(st) ==
    /\ categoryCurrentId' = st.categoryCurrentId
    /\ categories' = st.categories
    /\ categorySlugToIdMap' = st.categorySlugToIdMap

MemCreateCategory(category) ==
    /\ MemReady
    /\ categoryCurrentId <= Len(defaultCategories) + MaxNewCategories
    /\ MemSetCategoryStore(MemCreateCategoryIn(MemCategoryStore, category))
    /\ Called("createCategory", [category |-> category], FALSE,
              <<Spread(category, [id |-> categoryCurrentId])>>)
    /\ UNCHANGED <<backend, tasks, subtasks, taskCurrentId, subtaskCurrentId,
                   dbVars, seedRuns, clock>>

RECURSIVE MemSeedFrom(_, _)
MemSeedFrom(st, i) ==
    IF i > Len(defaultCategories) THEN st
    ELSE MemSeedFrom(MemCreateCategoryIn(st, defaultCategories[i]), i + 1)

MemInitializeDefaultCategories ==
    /\ backend = "mem"
    /\ MemSetCategoryStore(MemSeedFrom(MemCategoryStore, 1))
    /\ seedRuns' = seedRuns + 1
    /\ Called("seed", [run |-> seedRuns + 1], FALSE, <<>>)
    /\ UNCHANGED <<backend, tasks, subtasks, taskCurrentId, subtaskCurrentId,
                   dbVars, clock>>

\* MemReindex with a fault: the index is rebuilt with the entry of the updated
\* category alone.
MemReindexCleared(index, id, existingCategory, categoryUpdate) ==
    <<[key |-> DefinedOr(categoryUpdate, "slug", existingCategory.slug), val |-> id]>>

\* The slug index after updateCategory (storage.ts:104-107).
MemReindex(index, id, existingCategory, categoryUpdate) ==
    IF "slug" \in DOMAIN categoryUpdate /\ categoryUpdate.slug # ""
       /\ categoryUpdate.slug # existingCategory.slug
    THEN MapSet(MapDelete(index, existingCategory.slug), categoryUpdate.slug, id)
    ELSE index

MemUpdateCategory(id, categoryUpdate) ==
    LET existingCategory == MapGet(categories, id)
    IN  /\ MemReady
        /\ IF existingCategory = <<>>
           THEN /\ Called("updateCategory", [id |-> id, update |-> categoryUpdate],
                          FALSE, <<>>)
                /\ UNCHANGED <<categories, categorySlugToIdMap>>
           ELSE LET updatedCategory == Spread(existingCategory[1], categoryUpdate)
                IN  /\ categorySlugToIdMap' =
                           MemReindex(categorySlugToIdMap, id, existingCategory[1],
                                      categoryUpdate)
                    /\ categories' = MapSet(categories, id, updatedCategory)
                    /\ Called("updateCategory",
                              [id |-> id, update |-> categoryUpdate], FALSE,
                              <<updatedCategory>>)
        /\ UNCHANGED <<backend, tasks, subtasks, categoryCurrentId, taskCurrentId,
                       subtaskCurrentId, dbVars, seedRuns, clock>>

\* MemDeleteCategory with a fault: the slug index entry is deleted and the
\* category is left in the map.
MemDeleteCategoryIndexOnly(id) ==
    LET category == MapGet(categories, id)
    IN  /\ MemReady
        /\ IF category = <<>>
           THEN /\ Called("deleteCategory", [id |-> id], FALSE, <<FALSE>>)
                /\ UNCHANGED <<categories, categorySlugToIdMap>>
           ELSE /\ categorySlugToIdMap' = MapDelete(categorySlugToIdMap, category[1].slug)
                /\ UNCHANGED categories
                /\ Called("deleteCategory", [id |-> id], FALSE, <<TRUE>>)
        /\ UNCHANGED <<backend, tasks, subtasks, categoryCurrentId, taskCurrentId,
                       subtaskCurrentId, dbVars, seedRuns, clock>>

MemDeleteCategory(id) ==
    LET category == MapGet(categories, id)
    IN  /\ MemReady
        /\ IF category = <<>>
           THEN /\ Called("deleteCategory", [id |-> id], FALSE, <<FALSE>>)
                /\ UNCHANGED <<categories, categorySlugToIdMap>>
           ELSE /\ categorySlugToIdMap' = MapDelete(categorySlugToIdMap, category[1].slug)
                /\ categories' = MapDelete(categories, id)
                /\ Called("deleteCategory", [id |-> id], FALSE, <<TRUE>>)
        /\ UNCHANGED <<backend, tasks, subtasks, categoryCurrentId, taskCurrentId,
                       subtaskCurrentId, dbVars, seedRuns, clock>>

(***************************************************************************)
(* MemStorage: task and subtask writes.                                    *)
(***************************************************************************)
\* MemCreateSubtaskIn with a fault: the id is taken from the size of the map,
\* so that the id of a deleted subtask is handed out again.
MemCreateSubtaskInBySize(st, insertSubtask) ==
    LET id == Len(st.subtasks) + 1
        subtask == [id |-> id,
                    taskId |-> insertSubtask.taskId,
                    description |-> insertSubtask.description,
                    completed |-> DefinedOr(insertSubtask, "completed", FALSE)]
    IN  [subtaskCurrentId |-> st.subtaskCurrentId + 1,
         subtasks |-> MapSet(st.subtasks, id, subtask),
         created |-> Append(st.created, subtask)]

\* createSubtask on the subtask map and its counter.
MemCreateSubtaskIn(st, insertSubtask) ==
    LET id == st.subtaskCurrentId
        subtask == [id |-> id,
                    taskId |-> insertSubtask.taskId,
                    description |-> insertSubtask.description,
                    completed |-> DefinedOr(insertSubtask, "completed", FALSE)]
    IN  [subtaskCurrentId |-> id + 1,
         subtasks |-> MapSet(st.subtasks, id, subtask),
         created |-> Append(st.created, subtask)]

\* The loop of createTask over subtaskDescriptions (storage.ts:204-213).
RECURSIVE MemCreateSubtasksFrom(_, _, _, _)
MemCreateSubtasksFrom(st, id, subtaskDescriptions, i) ==
    IF i > Len(subtaskDescriptions) THEN st
    ELSE LET description == subtaskDescriptions[i]
             next == IF Truthy(Trim(description))
                     THEN MemCreateSubtaskIn(st, [taskId |-> id,
                                                  description |-> description,
                                                  completed |-> FALSE])
                     ELSE st
         IN  MemCreateSubtasksFrom(next, id, subtaskDescriptions, i + 1)

MemSubtaskStore ==
    [subtaskCurrentId |-> subtaskCurrentId, subtasks |-> subtasks, created |-> <<>>]

\* MemNewTask with a fault: priority and completed are stored as given, null
\* when left out.
MemNewTaskAsGiven(id, insertTask, createdAt) ==
    [id |-> id,
     name |-> insertTask.name,
     briefDescription |-> insertTask.briefDescription,
     detailedDescription |-> OrDefault(insertTask, "detailedDescription", Null),
     categorySlug |-> insertTask.categorySlug,
     frequency |-> insertTask.frequency,
     dueDate |-> insertTask.dueDate,
     priority |-> DefinedOr(insertTask, "priority", Null),
     completed |-> DefinedOr(insertTask, "completed", TRUE),
     createdAt |-> createdAt]

\* The Task object createTask builds (storage.ts:186-197).
MemNewTask(id, insertTask, createdAt) ==
    [id |-> id,
     name |-> insertTask.name,
     briefDescription |-> insertTask.briefDescription,
     detailedDescription |-> OrDefault(insertTask, "detailedDescription", Null),
     categorySlug |-> insertTask.categorySlug,
     frequency |-> insertTask.frequency,
     dueDate |-> insertTask.dueDate,
     priority |-> OrDefault(insertTask, "priority", "medium"),
     completed |-> OrFalse(insertTask, "completed"),
     createdAt |-> createdAt]

\* createTask while the counters are within maxTasks and maxSubtasks.
MemCreateTaskUpTo(maxTasks, maxSubtasks, insertTask, subtaskDescriptions, now) ==
    LET id == taskCurrentId
        task == MemNewTask(id, insertTask, now)
        st == MemCreateSubtasksFrom(MemSubtaskStore, id, subtaskDescriptions, 1)
    IN  /\ MemReady
        /\ taskCurrentId <= maxTasks
        /\ st.subtaskCurrentId <= maxSubtasks + 1
        /\ now \in clock..MaxTime
        /\ clock' = now
        /\ taskCurrentId' = id + 1
        /\ tasks' = MapSet(tasks, id, task)
        /\ subtasks' = st.subtasks
        /\ subtaskCurrentId' = st.subtaskCurrentId
        /\ Called("createTask",
                  [task |-> insertTask, subtasks |-> subtaskDescriptions], FALSE,
                  <<Spread(task, [subtasks |-> st.created,
                                  category |-> MemGetCategory(task.categorySlug)])>>)
        /\ UNCHANGED <<backend, categories, categorySlugToIdMap, categoryCurrentId,
                       dbVars, seedRuns>>

MemCreateTask(insertTask, subtaskDescriptions, now) ==
    MemCreateTaskUpTo(MaxTasks, MaxSubtasks, insertTask, subtaskDescriptions, now)

\* MemUpdatedTask with a fault: the task is rebuilt with the creation default
\* of priority instead of being copied.
MemUpdatedTaskRebuilt(existingTask, taskUpdate) ==
    Spread([existingTask EXCEPT !.priority = "medium"], taskUpdate)

\* const updatedTask: Task = { ...existingTask, ...taskUpdate }
MemUpdatedTask(existingTask, taskUpdate) == Spread(existingTask, taskUpdate)

MemUpdateTask(id, taskUpdate) ==
    LET existingTask == MapGet(tasks, id)
    IN  /\ MemReady
        /\ IF existingTask = <<>>
           THEN /\ Called("updateTask", [id |-> id, update |-> taskUpdate], FALSE, <<>>)
                /\ UNCHANGED tasks
           ELSE LET updatedTask == MemUpdatedTask(existingTask[1], taskUpdate)
                IN  /\ tasks' = MapSet(tasks, id, updatedTask)
                    /\ Called("updateTask", [id |-> id, update |-> taskUpdate], FALSE,
                              <<MemEnrich(updatedTask, MemGetSubtasks(id))>>)
        /\ UNCHANGED <<backend, categories, categorySlugToIdMap, subtasks,
                       categoryCurrentId, taskCurrentId, subtaskCurrentId,
                       dbVars, seedRuns, clock>>

(***************************************************************************)
(* MemStorage: updateTask, from await to await.  The method reads the task, *)
(* writes the updated one and calls getSubtasks before its first await      *)
(* (storage.ts:222-231); getSubtasks and getCategory are async functions    *)
(* that compute their result when they are called.                          *)
(***************************************************************************)
\* MemUpdateTaskExisting with a fault: the task was read before an await, so
\* it is the one a call in flight on the same id has read.
MemUpdateTaskExistingStale(id) ==
    LET Reader(h) == /\ calls[h].op = "updateTask"
                     /\ calls[h].pc \in {"subtasks", "category"}
                     /\ calls[h].args.id = id
    IN  IF \E h \in Handlers : Reader(h)
        THEN <<calls[CHOOSE h \in Handlers : Reader(h)].existingTask>>
        ELSE MapGet(tasks, id)

\* const existingTask = this.tasks.get(id)
MemUpdateTaskExisting(id) == MapGet(tasks, id)

\* Up to the first await: lines 222-231.
MemUpdateTaskSet(h, id, taskUpdate) ==
    LET existingTask == MemUpdateTaskExisting(id)
        call == [op |-> "updateTask", pc |-> "subtasks",
                 args |-> [id |-> id, update |-> taskUpdate]]
    IN  /\ MemReady
        /\ Free(h)
        /\ IF existingTask = <<>>
           THEN /\ UNCHANGED tasks
                /\ Finish(h, call, FALSE, <<>>)
           ELSE LET updatedTask == MemUpdatedTask(existingTask[1], taskUpdate)
                IN  /\ tasks' = MapSet(tasks, id, updatedTask)
                    /\ Await(h, Spread(call, [existingTask |-> existingTask[1],
                                              updatedTask |-> updatedTask,
                                              taskSubtasks |-> MemGetSubtasks(id)]))
        /\ UNCHANGED <<backend, categories, categorySlugToIdMap, subtasks,
                       categoryCurrentId, taskCurrentId, subtaskCurrentId,
                       dbVars, seedRuns, clock>>

\* From the first await to the second: line 232.
MemUpdateTaskGetCategory(h) ==
    /\ backend = "mem"
    /\ InFlight(h, "updateTask", "subtasks")
    /\ Await(h, Spread(calls[h],
                       [pc |-> "category",
                        category |-> MemGetCategory(calls[h].updatedTask.categorySlug)]))
    /\ UNCHANGED <<backend, memVars, dbVars, seedRuns, clock>>

\* After the second await: line 234.
MemUpdateTaskReturn(h) ==
    /\ backend = "mem"
    /\ InFlight(h, "updateTask", "category")
    /\ Finish(h, calls[h], FALSE,
              <<Spread(calls[h].updatedTask,
                       [subtasks |-> calls[h].taskSubtasks,
                        category |-> calls[h].category])>>)
    /\ UNCHANGED <<backend, memVars, dbVars, seedRuns, clock>>

\* The subtask map after the cascade of deleteTask (storage.ts:242-247).
RECURSIVE MemDeleteSubtasksFrom(_, _, _, _)
MemDeleteSubtasksFrom(m, subtasksList, id, i) ==
    IF i > Len(subtasksList) THEN m
    ELSE MemDeleteSubtasksFrom(
             IF subtasksList[i].taskId = id THEN MapDelete(m, subtasksList[i].id) ELSE m,
             subtasksList, id, i + 1)

\* MemDeleteSubtasksOf with a fault: deleteTask without the cascade.
MemDeleteSubtasksOfNone(m, id) == m

MemDeleteSubtasksOf(m, id) == MemDeleteSubtasksFrom(m, MapValues(m), id, 1)

MemDeleteTask(id) ==
    /\ MemReady
    /\ IF MapHas(tasks, id)
       THEN /\ subtasks' = MemDeleteSubtasksOf(subtasks, id)
            /\ tasks' = MapDelete(tasks, id)
            /\ Called("deleteTask", [id |-> id], FALSE, <<TRUE>>)
       ELSE /\ UNCHANGED <<tasks, subtasks>>
            /\ Called("deleteTask", [id |-> id], FALSE, <<FALSE>>)
    /\ UNCHANGED <<backend, categories, categorySlugToIdMap, categoryCurrentId,
                   taskCurrentId, subtaskCurrentId, dbVars, seedRuns, clock>>

MemCreateSubtask(insertSubtask) ==
    LET st == MemCreateSubtaskIn(MemSubtaskStore, insertSubtask)
    IN  /\ MemReady
        /\ subtaskCurrentId <= MaxSubtasks
        /\ subtasks' = st.subtasks
        /\ subtaskCurrentId' = st.subtaskCurrentId
        /\ Called("createSubtask", [subtask |-> insertSubtask], FALSE, st.created)
        /\ UNCHANGED <<backend, categories, categorySlugToIdMap, tasks,
                       categoryCurrentId, taskCurrentId, dbVars, seedRuns, clock>>

MemUpdateSubtask(id, completed) ==
    LET existingSubtask == MapGet(subtasks, id)
    IN  /\ MemReady
        /\ IF existingSubtask = <<>>
           THEN /\ Called("updateSubtask", [id |-> id, completed |-> completed],
                          FALSE, <<>>)
                /\ UNCHANGED subtasks
           ELSE LET updatedSubtask ==
                        Spread(existingSubtask[1], [completed |-> completed])
                IN  /\ subtasks' = MapSet(subtasks, id, updatedSubtask)
                    /\ Called("updateSubtask", [id |-> id, completed |-> completed],
                              FALSE, <<updatedSubtask>>)
        /\ UNCHANGED <<backend, categories, categorySlugToIdMap, tasks,
                       categoryCurrentId, taskCurrentId, subtaskCurrentId,
                       dbVars, seedRuns, clock>>

MemDeleteSubtask(id) ==
    /\ MemReady
    /\ IF MapHas(subtasks, id)
       THEN /\ subtasks' = MapDelete(subtasks, id)
            /\ Called("deleteSubtask", [id |-> id], FALSE, <<TRUE>>)
       ELSE /\ UNCHANGED subtasks
            /\ Called("deleteSubtask", [id |-> id], FALSE, <<FALSE>>)
    /\ UNCHANGED <<backend, categories, categorySlugToIdMap, tasks,
                   categoryCurrentId, taskCurrentId, subtaskCurrentId,
                   dbVars, seedRuns, clock>>

(***************************************************************************)
(* DBStorage: the tables and their constraints (schema.ts), and reads.     *)
(* A query without ORDER BY returns the rows in insertion order.           *)
(***************************************************************************)
\* serial("id").primaryKey(): no other row has the id.
\* text("slug").notNull().unique(): no other category has the slug.
PrimaryKeyFree(table, i, id) == \A j \in 1..Len(table) : j # i => table[j].id # id

SlugFree(table, i, slug) == \A j \in 1..Len(table) : j # i => table[j].slug # slug

\* RowOf with a fault: the where clause is left out.
RowOfAny(table, id) == IF table = <<>> THEN 0 ELSE 1

\* The index of the row with the id, 0 when there is none.
RowOf(table, id) ==
    IF \E i \in 1..Len(table) : table[i].id = id
    THEN CHOOSE i \in 1..Len(table) : table[i].id = id
    ELSE 0

DeleteWhereId(table, id) ==
    LET Keep(r) == r.id # id IN SelectSeq(table, Keep)

DbGetCategories == dbCategories

DbGetCategoryIn(cats, slug) ==
    LET Match(c) == c.slug = slug
        result == SelectSeq(cats, Match)
    IN  IF result = <<>> THEN <<>> ELSE <<result[1]>>

DbGetCategory(slug) == DbGetCategoryIn(dbCategories, slug)

DbGetSubtasksIn(subs, taskId) ==
    LET Owned(s) == s.taskId = taskId IN SelectSeq(subs, Owned)

DbGetSubtasks(taskId) == DbGetSubtasksIn(dbSubtasks, taskId)

DbGetTaskIn(tsks, subs, cats, id) ==
    LET i == RowOf(tsks, id)
    IN  IF i = 0 THEN <<>>
        ELSE <<Spread(tsks[i],
                      [subtasks |-> DbGetSubtasksIn(subs, tsks[i].id),
                       category |-> DbGetCategoryIn(cats, tsks[i].categorySlug)])>>

DbGetTask(id) == DbGetTaskIn(dbTasks, dbSubtasks, dbCategories, id)

\* orderBy(desc(tasks.createdAt)): rows with a later createdAt come first.  The
\* order among rows of equal createdAt is the database's choice; this is the
\* order of insertion, and nothing below depends on it.
RECURSIVE InsertByCreatedAtDesc(_, _)
InsertByCreatedAtDesc(sorted, row) ==
    IF sorted = <<>> THEN <<row>>
    ELSE IF Head(sorted).createdAt >= row.createdAt
    THEN <<Head(sorted)>> \o InsertByCreatedAtDesc(Tail(sorted), row)
    ELSE <<row>> \o sorted

RECURSIVE OrderByCreatedAtDesc(_)
OrderByCreatedAtDesc(table) ==
    IF table = <<>> THEN <<>>
    ELSE InsertByCreatedAtDesc(
             OrderByCreatedAtDesc(SubSeq(table, 1, Len(table) - 1)),
             table[Len(table)])

\* categoriesMap.get(slug): a later row of the same slug replaces an earlier one.
DbCategoriesMapGet(cats, slug) ==
    LET Match(c) == c.slug = slug
        result == SelectSeq(cats, Match)
    IN  IF result = <<>> THEN <<>> ELSE <<result[Len(result)]>>

DbEnrichTasksWithSubtasksAndCategories(tasksList) ==
    [i \in 1..Len(tasksList) |->
        Spread(tasksList[i],
               [subtasks |-> DbGetSubtasks(tasksList[i].id),
                category |-> DbCategoriesMapGet(dbCategories, tasksList[i].categorySlug)])]

DbGetTasks == DbEnrichTasksWithSubtasksAndCategories(OrderByCreatedAtDesc(dbTasks))

DbGetTasksByFrequency(frequency) ==
    LET Wanted(t) == t.frequency = frequency
    IN  DbEnrichTasksWithSubtasksAndCategories(
            OrderByCreatedAtDesc(SelectSeq(dbTasks, Wanted)))

(***************************************************************************)
(* DBStorage: category writes.                                             *)
(***************************************************************************)
\* The constructor starts initializeDatabase (dbStorage.ts:23).  The calls
\* modelled here are those of request handlers that run once it has ended;
\* a request that overtakes the seeding is not part of these specifications.
DbReady == backend = "db" /\ seedRuns > 0

\* insert into categories: the serial is taken also when the insert fails.
DbCreateCategoryIn(st, category) ==
    LET id == st.serial
        ok == SlugFree(st.table, 0, category.slug)
    IN  [serial |-> id + 1,
         table |-> IF ok THEN Append(st.table, Spread(category, [id |-> id]))
                   ELSE st.table,
         threw |-> ~ok]

DbCategoryStore == [serial |-> dbCategoriesSerial, table |-> dbCategories, threw |-> FALSE]

DbCreateCategory(category) ==
    LET st == DbCreateCategoryIn(DbCategoryStore, category)
    IN  /\ DbReady
        /\ dbCategoriesSerial <= Len(defaultCategories) + MaxNewCategories
        /\ dbCategoriesSerial' = st.serial
        /\ dbCategories' = st.table
        /\ Called("createCategory", [category |-> category], st.threw,
                  IF st.threw THEN <<>> ELSE <<st.table[Len(st.table)]>>)
        /\ UNCHANGED <<backend, memVars, dbTasks, dbSubtasks, dbTasksSerial,
                       dbSubtasksSerial, seedRuns, clock>>

\* The loop of initializeDatabase; an insert that throws ends it (the catch
\* of dbStorage.ts:40).
RECURSIVE DbSeedFrom(_, _)
DbSeedFrom(st, i) ==
    IF i > Len(defaultCategories) \/ st.threw THEN st
    ELSE DbSeedFrom(DbCreateCategoryIn(st, defaultCategories[i]), i + 1)

DbInitializeDatabase ==
    LET existingCategories == DbGetCategories
        st == IF Len(existingCategories) = 0 THEN DbSeedFrom(DbCategoryStore, 1)
              ELSE DbCategoryStore
    IN  /\ backend = "db"
        /\ dbCategoriesSerial' = st.serial
        /\ dbCategories' = st.table
        /\ seedRuns' = seedRuns + 1
        /\ Called("seed", [run |-> seedRuns + 1], FALSE, <<>>)
        /\ UNCHANGED <<backend, memVars, dbTasks, dbSubtasks, dbTasksSerial,
                       dbSubtasksSerial, clock>>

DbUpdateCategory(id, category) ==
    LET i == RowOf(dbCategories, id)
        row == Spread(dbCategories[i], category)
        ok == PrimaryKeyFree(dbCategories, i, row.id) /\ SlugFree(dbCategories, i, row.slug)
    IN  /\ DbReady
        /\ IF i = 0
           THEN /\ Called("updateCategory", [id |-> id, update |-> category], FALSE, <<>>)
                /\ UNCHANGED dbCategories
           ELSE IF ok
           THEN /\ dbCategories' = [dbCategories EXCEPT ![i] = row]
                /\ Called("updateCategory", [id |-> id, update |-> category], FALSE,
                          <<row>>)
           ELSE /\ Called("updateCategory", [id |-> id, update |-> category], TRUE, <<>>)
                /\ UNCHANGED dbCategories
        /\ UNCHANGED <<backend, memVars, dbTasks, dbSubtasks, dbCategoriesSerial,
                       dbTasksSerial, dbSubtasksSerial, seedRuns, clock>>

DbDeleteCategory(id) ==
    /\ DbReady
    /\ dbCategories' = DeleteWhereId(dbCategories, id)
    /\ Called("deleteCategory", [id |-> id], FALSE, <<RowOf(dbCategories, id) # 0>>)
    /\ UNCHANGED <<backend, memVars, dbTasks, dbSubtasks, dbCategoriesSerial,
                   dbTasksSerial, dbSubtasksSerial, seedRuns, clock>>

(***************************************************************************)
(* DBStorage: task and subtask writes.                                     *)
(***************************************************************************)
\* insert into subtasks ... returning (completed defaults to false).
DbCreateSubtaskIn(st, subtask) ==
    LET row == [id |-> st.serial,
                taskId |-> subtask.taskId,
                description |-> subtask.description,
                completed |-> DefinedOr(subtask, "completed", FALSE)]
    IN  [serial |-> st.serial + 1,
         table |-> Append(st.table, row),
         created |-> Append(st.created, row)]

\* The loop of createTask over subtaskDescriptions (dbStorage.ts:160-167).
RECURSIVE DbCreateSubtasksFrom(_, _, _, _)
DbCreateSubtasksFrom(st, taskId, subtaskDescriptions, i) ==
    IF i > Len(subtaskDescriptions) THEN st
    ELSE DbCreateSubtasksFrom(
             DbCreateSubtaskIn(st, [taskId |-> taskId,
                                    description |-> subtaskDescriptions[i],
                                    completed |-> FALSE]),
             taskId, subtaskDescriptions, i + 1)

DbSubtaskStore == [serial |-> dbSubtasksSerial, table |-> dbSubtasks, created |-> <<>>]

\* The row insert into tasks stores: the column defaults of schema.ts:21-32
\* fill what insertTask leaves out.
DbNewTask(id, insertTask, now) ==
    [id |-> id,
     name |-> insertTask.name,
     briefDescription |-> insertTask.briefDescription,
     detailedDescription |-> DefinedOr(insertTask, "detailedDescription", Null),
     categorySlug |-> insertTask.categorySlug,
     frequency |-> insertTask.frequency,
     dueDate |-> insertTask.dueDate,
     priority |-> DefinedOr(insertTask, "priority", "medium"),
     completed |-> DefinedOr(insertTask, "completed", FALSE),
     createdAt |-> now]

\* The serial does not skip ids that an update has put into the table: the
\* insert of a task whose id is taken fails on the primary key, and the
\* serial is taken all the same.
DbCreateTaskUpTo(maxTasks, maxSubtasks, insertTask, subtaskDescriptions, now) ==
    LET task == DbNewTask(dbTasksSerial, insertTask, now)
        ok == PrimaryKeyFree(dbTasks, 0, task.id)
        st == DbCreateSubtasksFrom(DbSubtaskStore, task.id, subtaskDescriptions, 1)
    IN  /\ DbReady
        /\ dbTasksSerial <= maxTasks
        /\ st.serial <= maxSubtasks + 1
        /\ now \in clock..MaxTime
        /\ clock' = now
        /\ dbTasksSerial' = dbTasksSerial + 1
        /\ IF ok
           THEN /\ dbTasks' = Append(dbTasks, task)
                /\ dbSubtasks' = st.table
                /\ dbSubtasksSerial' = st.serial
                /\ Called("createTask",
                          [task |-> insertTask, subtasks |-> subtaskDescriptions], FALSE,
                          <<Spread(task, [subtasks |-> st.created,
                                          category |-> DbGetCategory(task.categorySlug)])>>)
           ELSE /\ UNCHANGED <<dbTasks, dbSubtasks, dbSubtasksSerial>>
                /\ Called("createTask",
                          [task |-> insertTask, subtasks |-> subtaskDescriptions], TRUE,
                          <<>>)
        /\ UNCHANGED <<backend, memVars, dbCategories, dbCategoriesSerial, seedRuns>>

DbCreateTask(insertTask, subtaskDescriptions, now) ==
    DbCreateTaskUpTo(MaxTasks, MaxSubtasks, insertTask, subtaskDescriptions, now)

DbUpdateTask(id, taskUpdate) ==
    LET i == RowOf(dbTasks, id)
        row == Spread(dbTasks[i], taskUpdate)
        ok == PrimaryKeyFree(dbTasks, i, row.id)
        updated == [dbTasks EXCEPT ![i] = row]
    IN  /\ DbReady
        /\ IF i = 0
           THEN /\ Called("updateTask", [id |-> id, update |-> taskUpdate], FALSE, <<>>)
                /\ UNCHANGED dbTasks
           ELSE IF ok
           THEN /\ dbTasks' = updated
                /\ Called("updateTask", [id |-> id, update |-> taskUpdate], FALSE,
                          DbGetTaskIn(updated, dbSubtasks, dbCategories, id))
           ELSE /\ Called("updateTask", [id |-> id, update |-> taskUpdate], TRUE, <<>>)
                /\ UNCHANGED dbTasks
        /\ UNCHANGED <<backend, memVars, dbCategories, dbSubtasks, dbCategoriesSerial,
                       dbTasksSerial, dbSubtasksSerial, seedRuns, clock>>

\* delete from subtasks where task_id = id
DbDeleteSubtasksOf(table, id) ==
    LET Keep(r) == r.taskId # id IN SelectSeq(table, Keep)

DbDeleteTask(id) ==
    /\ DbReady
    /\ dbSubtasks' = DbDeleteSubtasksOf(dbSubtasks, id)
    /\ dbTasks' = DeleteWhereId(dbTasks, id)
    /\ Called("deleteTask", [id |-> id], FALSE, <<RowOf(dbTasks, id) # 0>>)
    /\ UNCHANGED <<backend, memVars, dbCategories, dbCategoriesSerial,
                   dbTasksSerial, dbSubtasksSerial, seedRuns, clock>>

DbCreateSubtask(subtask) ==
    LET st == DbCreateSubtaskIn(DbSubtaskStore, subtask)
    IN  /\ DbReady
        /\ dbSubtasksSerial <= MaxSubtasks
        /\ dbSubtasks' = st.table
        /\ dbSubtasksSerial' = st.serial
        /\ Called("createSubtask", [subtask |-> subtask], FALSE, st.created)
        /\ UNCHANGED <<backend, memVars, dbCategories, dbTasks, dbCategoriesSerial,
                       dbTasksSerial, seedRuns, clock>>

DbUpdateSubtask(id, completed) ==
    LET i == RowOf(dbSubtasks, id)
        row == Spread(dbSubtasks[i], [completed |-> completed])
    IN  /\ DbReady
        /\ IF i = 0
           THEN /\ Called("updateSubtask", [id |-> id, completed |-> completed],
                          FALSE, <<>>)
                /\ UNCHANGED dbSubtasks
           ELSE /\ dbSubtasks' = [dbSubtasks EXCEPT ![i] = row]
                /\ Called("updateSubtask", [id |-> id, completed |-> completed],
                          FALSE, <<row>>)
        /\ UNCHANGED <<backend, memVars, dbCategories, dbTasks, dbCategoriesSerial,
                       dbTasksSerial, dbSubtasksSerial, seedRuns, clock>>

DbDeleteSubtask(id) ==
    /\ DbReady
    /\ dbSubtasks' = DeleteWhereId(dbSubtasks, id)
    /\ Called("deleteSubtask", [id |-> id], FALSE, <<RowOf(dbSubtasks, id) # 0>>)
    /\ UNCHANGED <<backend, memVars, dbCategories, dbTasks, dbCategoriesSerial,
                   dbTasksSerial, dbSubtasksSerial, seedRuns, clock>>

(***************************************************************************)
(* DBStorage: deleteTask, one statement at a time.                         *)
(***************************************************************************)
\* DbDeleteTaskSubtasks with a fault: the task row is deleted first.
DbDeleteTaskSubtasksTaskFirst(h, id) ==
    /\ DbReady
    /\ Free(h)
    /\ dbTasks' = DeleteWhereId(dbTasks, id)
    /\ Await(h, [op |-> "deleteTask", pc |-> "task", args |-> [id |-> id],
                 found |-> RowOf(dbTasks, id) # 0, deleted |-> 0])
    /\ UNCHANGED <<backend, memVars, dbCategories, dbSubtasks, dbCategoriesSerial,
                   dbTasksSerial, dbSubtasksSerial, seedRuns, clock>>

\* await db.delete(subtasks).where(eq(subtasks.taskId, id)).  The method
\* reads nothing here; the record of the call notes what the statement met:
\* `found`, whether the task was stored, and `deleted`, the number of rows
\* the statement deleted.
DbDeleteTaskSubtasks(h, id) ==
    /\ DbReady
    /\ Free(h)
    /\ dbSubtasks' = DbDeleteSubtasksOf(dbSubtasks, id)
    /\ Await(h, [op |-> "deleteTask", pc |-> "task", args |-> [id |-> id],
                 found |-> RowOf(dbTasks, id) # 0,
                 deleted |-> Len(dbSubtasks) - Len(DbDeleteSubtasksOf(dbSubtasks, id))])
    /\ UNCHANGED <<backend, memVars, dbCategories, dbTasks, dbCategoriesSerial,
                   dbTasksSerial, dbSubtasksSerial, seedRuns, clock>>

\* await db.delete(tasks).where(eq(tasks.id, id)).returning(), and the return.
\* `left` notes the subtasks of the id that are stored when the row goes.
DbDeleteTaskRow(h) ==
    /\ backend = "db"
    /\ InFlight(h, "deleteTask", "task")
    /\ dbTasks' = DeleteWhereId(dbTasks, calls[h].args.id)
    /\ Finish(h, Spread(calls[h],
                        [left |-> Len(DbGetSubtasksIn(dbSubtasks, calls[h].args.id))]),
              FALSE, <<RowOf(dbTasks, calls[h].args.id) # 0>>)
    /\ UNCHANGED <<backend, memVars, dbCategories, dbSubtasks, dbCategoriesSerial,
                   dbTasksSerial, dbSubtasksSerial, seedRuns, clock>>

(***************************************************************************)
(* DBStorage: createTask, one statement at a time.                         *)
(***************************************************************************)
\* The insert into tasks (dbStorage.ts:151-156).  An insert that fails on the
\* primary key throws out of the method before the loop (i = 0).
DbCreateTaskInsertTask(h, insertTask, subtaskDescriptions, now) ==
    LET task == DbNewTask(dbTasksSerial, insertTask, now)
        ok == PrimaryKeyFree(dbTasks, 0, task.id)
        call == [op |-> "createTask", pc |-> "subtasks",
                 args |-> [task |-> insertTask, subtasks |-> subtaskDescriptions],
                 task |-> task, i |-> 1, subtasksList |-> <<>>]
    IN  /\ DbReady
        /\ Free(h)
        /\ dbTasksSerial <= MaxTasks
        /\ dbSubtasksSerial + Len(subtaskDescriptions) <= MaxSubtasks + 1
        /\ now \in clock..MaxTime
        /\ clock' = now
        /\ dbTasksSerial' = dbTasksSerial + 1
        /\ IF ok
           THEN /\ dbTasks' = Append(dbTasks, task)
                /\ Await(h, call)
           ELSE /\ UNCHANGED dbTasks
                /\ Finish(h, Spread(call, [i |-> 0]), TRUE, <<>>)
        /\ UNCHANGED <<backend, memVars, dbCategories, dbSubtasks, dbCategoriesSerial,
                       dbSubtasksSerial, seedRuns>>

\* One turn of the loop (dbStorage.ts:160-167): the insert of the i-th
\* subtask and the push.
DbCreateTaskInsertSubtask(h) ==
    LET call == calls[h]
        st == DbCreateSubtaskIn(DbSubtaskStore,
                                [taskId |-> call.task.id,
                                 description |-> call.args.subtasks[call.i],
                                 completed |-> FALSE])
    IN  /\ backend = "db"
        /\ InFlight(h, "createTask", "subtasks")
        /\ call.i <= Len(call.args.subtasks)
        /\ dbSubtasks' = st.table
        /\ dbSubtasksSerial' = st.serial
        /\ Await(h, Spread(call, [i |-> call.i + 1,
                                  subtasksList |-> call.subtasksList \o st.created]))
        /\ UNCHANGED <<backend, memVars, dbCategories, dbTasks, dbCategoriesSerial,
                       dbTasksSerial, seedRuns, clock>>

\* DbCreateTaskInsertSubtaskFails with a fault: the method undoes its inserts
\* before it throws.
DbCreateTaskInsertSubtaskFailsRolledBack(h) ==
    /\ backend = "db"
    /\ InFlight(h, "createTask", "subtasks")
    /\ calls[h].i <= Len(calls[h].args.subtasks)
    /\ dbTasks' = DeleteWhereId(dbTasks, calls[h].task.id)
    /\ dbSubtasks' = DbDeleteSubtasksOf(dbSubtasks, calls[h].task.id)
    /\ Finish(h, calls[h], TRUE, <<>>)
    /\ UNCHANGED <<backend, memVars, dbCategories, dbCategoriesSerial,
                   dbTasksSerial, dbSubtasksSerial, seedRuns, clock>>

\* The insert of the i-th subtask is rejected by the database (the connection
\* is lost, the statement times out): createSubtask throws, nothing in
\* createTask catches it, and the rows inserted so far are left as they are.
DbCreateTaskInsertSubtaskFails(h) ==
    /\ backend = "db"
    /\ InFlight(h, "createTask", "subtasks")
    /\ calls[h].i <= Len(calls[h].args.subtasks)
    /\ Finish(h, calls[h], TRUE, <<>>)
    /\ UNCHANGED <<backend, memVars, dbVars, seedRuns, clock>>

\* After the loop: the select of the category and the return
\* (dbStorage.ts:170-182).
DbCreateTaskSelectCategory(h) ==
    LET call == calls[h]
    IN  /\ backend = "db"
        /\ InFlight(h, "createTask", "subtasks")
        /\ call.i > Len(call.args.subtasks)
        /\ Finish(h, call, FALSE,
                  <<Spread(call.task,
                           [subtasks |-> call.subtasksList,
                            category |-> DbGetCategory(call.task.categorySlug)])>>)
        /\ UNCHANGED <<backend, memVars, dbVars, seedRuns, clock>>

(***************************************************************************)
(* DBStorage: updateTask, one statement at a time.                         *)
(***************************************************************************)
\* The update ... returning (dbStorage.ts:187-195); rows is result.length.
DbUpdateTaskUpdate(h, id, taskUpdate) ==
    LET i == RowOf(dbTasks, id)
        row == Spread(dbTasks[i], taskUpdate)
        ok == PrimaryKeyFree(dbTasks, i, row.id)
        call == [op |-> "updateTask", pc |-> "task",
                 args |-> [id |-> id, update |-> taskUpdate],
                 rows |-> IF i # 0 /\ ok THEN 1 ELSE 0]
    IN  /\ DbReady
        /\ Free(h)
        /\ IF i = 0
           THEN /\ UNCHANGED dbTasks
                /\ Finish(h, call, FALSE, <<>>)
           ELSE IF ok
           THEN /\ dbTasks' = [dbTasks EXCEPT ![i] = row]
                /\ Await(h, call)
           ELSE /\ UNCHANGED dbTasks
                /\ Finish(h, call, TRUE, <<>>)
        /\ UNCHANGED <<backend, memVars, dbCategories, dbSubtasks, dbCategoriesSerial,
                       dbTasksSerial, dbSubtasksSerial, seedRuns, clock>>

\* return this.getTask(id): the select of the task (dbStorage.ts:119-128).
DbUpdateTaskSelectTask(h) ==
    LET i == RowOf(dbTasks, calls[h].args.id)
    IN  /\ backend = "db"
        /\ InFlight(h, "updateTask", "task")
        /\ IF i = 0
           THEN Finish(h, calls[h], FALSE, <<>>)
           ELSE Await(h, Spread(calls[h], [pc |-> "subtasks", task |-> dbTasks[i]]))
        /\ UNCHANGED <<backend, memVars, dbVars, seedRuns, clock>>

\* getTask: the select of the subtasks (dbStorage.ts:131).
DbUpdateTaskSelectSubtasks(h) ==
    /\ backend = "db"
    /\ InFlight(h, "updateTask", "subtasks")
    /\ Await(h, Spread(calls[h], [pc |-> "category",
                                  subtasksList |-> DbGetSubtasks(calls[h].task.id)]))
    /\ UNCHANGED <<backend, memVars, dbVars, seedRuns, clock>>

\* getTask: the select of the category and the return (dbStorage.ts:134-146).
DbUpdateTaskSelectCategory(h) ==
    /\ backend = "db"
    /\ InFlight(h, "updateTask", "category")
    /\ Finish(h, calls[h], FALSE,
              <<Spread(calls[h].task,
                       [subtasks |-> calls[h].subtasksList,
                        category |-> DbGetCategory(calls[h].task.categorySlug)])>>)
    /\ UNCHANGED <<backend, memVars, dbVars, seedRuns, clock>>

\* The process ends while calls are waiting: they never go on.  The tables
\* are in the database and stay as they are.
Crash ==
    /\ DbReady
    /\ \E h \in Handlers : ~Free(h) /\ calls[h].pc # "crashed"
    /\ calls' = [h \in Handlers |->
                    IF Free(h) THEN calls[h]
                    ELSE Spread(calls[h], [pc |-> "crashed", at |-> calls[h].pc])]
    /\ last' = [op |-> "crash", args |-> <<>>, threw |-> FALSE, result |-> <<>>]
    /\ UNCHANGED <<backend, memVars, dbVars, seedRuns, clock>>

(***************************************************************************)
(* The contract (IStorage), on whichever backend the process uses.         *)
(***************************************************************************)
GetCategories == IF backend = "mem" THEN MemGetCategories ELSE DbGetCategories

GetCategory(slug) == IF backend = "mem" THEN MemGetCategory(slug) ELSE DbGetCategory(slug)

GetTask(id) == IF backend = "mem" THEN MemGetTask(id) ELSE DbGetTask(id)

GetSubtasks(taskId) ==
    IF backend = "mem" THEN MemGetSubtasks(taskId) ELSE DbGetSubtasks(taskId)

GetTasks == IF backend = "mem" THEN MemGetTasks ELSE DbGetTasks

GetTasksByFrequency(frequency) ==
    IF backend = "mem" THEN MemGetTasksByFrequency(frequency)
    ELSE DbGetTasksByFrequency(frequency)

\* Every stored task and subtask, whatever the backend.
StoredTasks == IF backend = "mem" THEN MapValues(tasks) ELSE dbTasks

\* The category stored under the id: categories.get(id), or the row with the id.
CategoryById(id) ==
    IF backend = "mem" THEN MapGet(categories, id)
    ELSE IF RowOf(dbCategories, id) = 0 THEN <<>>
    ELSE <<dbCategories[RowOf(dbCategories, id)]>>

StoredSubtasks == IF backend = "mem" THEN MapValues(subtasks) ELSE dbSubtasks

\* An id matches an entity: the map has the key, or the table a row of the id.
HasRow(table, id) == \E i \in 1..Len(table) : table[i].id = id

TaskStored(id) == IF backend = "mem" THEN MapHas(tasks, id) ELSE HasRow(dbTasks, id)

SubtaskStored(id) ==
    IF backend = "mem" THEN MapHas(subtasks, id) ELSE HasRow(dbSubtasks, id)

CategoryStored(id) ==
    IF backend = "mem" THEN MapHas(categories, id) ELSE HasRow(dbCategories, id)

SlugStored(slug) == \E i \in 1..Len(GetCategories) : GetCategories[i].slug = slug

SlugInputs == DefaultSlugs \cup {"x", "nowhere"}

CreateCategory(category) == MemCreateCategory(category) \/ DbCreateCategory(category)

UpdateCategory(id, update) == MemUpdateCategory(id, update) \/ DbUpdateCategory(id, update)

DeleteCategory(id) == MemDeleteCategory(id) \/ DbDeleteCategory(id)

CreateTask(insertTask, subtaskDescriptions, now) ==
    \/ MemCreateTask(insertTask, subtaskDescriptions, now)
    \/ DbCreateTask(insertTask, subtaskDescriptions, now)

UpdateTask(id, update) == MemUpdateTask(id, update) \/ DbUpdateTask(id, update)

DeleteTask(id) == MemDeleteTask(id) \/ DbDeleteTask(id)

CreateSubtask(subtask) == MemCreateSubtask(subtask) \/ DbCreateSubtask(subtask)

UpdateSubtask(id, completed) ==
    MemUpdateSubtask(id, completed) \/ DbUpdateSubtask(id, completed)

DeleteSubtask(id) == MemDeleteSubtask(id) \/ DbDeleteSubtask(id)

(***************************************************************************)
(* Specifications.                                                         *)
(***************************************************************************)
\* Both stores as their constructors leave them, before any seeding.
EmptyStores ==
    /\ categories = <<>>
    /\ categorySlugToIdMap = <<>>
    /\ tasks = <<>>
    /\ subtasks = <<>>
    /\ categoryCurrentId = 1
    /\ taskCurrentId = 1
    /\ subtaskCurrentId = 1
    /\ dbCategories = <<>>
    /\ dbTasks = <<>>
    /\ dbSubtasks = <<>>
    /\ dbCategoriesSerial = 1
    /\ dbTasksSerial = 1
    /\ dbSubtasksSerial = 1
    /\ seedRuns = 0
    /\ clock = 1
    /\ last = [op |-> "new", args |-> <<>>, threw |-> FALSE, result |-> <<>>]
    /\ calls = [h \in Handlers |-> Idle]

Init ==
    /\ backend \in {"mem", "db"}
    /\ EmptyStores

\* The process seeds once, from the constructor of its backend.
SeedOnce ==
    \/ seedRuns = 0 /\ MemInitializeDefaultCategories
    \/ seedRuns = 0 /\ DbInitializeDatabase

TaskCalls ==
    \/ \E t \in TaskInputs, d \in DescriptionInputs, now \in 1..MaxTime :
           CreateTask(t, d, now)
    \/ \E id \in TaskIdInputs, u \in TaskUpdates : UpdateTask(id, u)
    \/ \E id \in TaskIdInputs : DeleteTask(id)
    \/ \E id \in TaskIdInputs : CreateSubtask([taskId |-> id, description |-> Draft])
    \/ \E id \in SubtaskIdInputs, c \in BOOLEAN : UpdateSubtask(id, c)
    \/ \E id \in SubtaskIdInputs : DeleteSubtask(id)

Next == SeedOnce \/ TaskCalls

Spec == Init /\ [][Next]_vars

\* The category calls, with tasks created and deleted so that categories are
\* in use or not.
CategoryCalls ==
    \/ \E c \in CategoryInputs : CreateCategory(c)
    \/ \E id \in CategoryIdInputs, u \in CategoryUpdates : UpdateCategory(id, u)
    \/ \E id \in CategoryIdInputs : DeleteCategory(id)
    \/ \E t \in TaskInputs, now \in 1..MaxTime : CreateTask(t, <<>>, now)
    \/ \E id \in TaskIdInputs : DeleteTask(id)

NextCategories == SeedOnce \/ CategoryCalls

SpecCategories == Init /\ [][NextCategories]_vars

\* The seeding routine invoked again on the same store: what a restart does
\* to the relational store, and what a second call of
\* initializeDefaultCategories would do to the in-memory one.
SeedAgain ==
    \/ seedRuns < MaxSeedRuns /\ MemInitializeDefaultCategories
    \/ seedRuns < MaxSeedRuns /\ DbInitializeDatabase

NextSeed == SeedAgain \/ TaskCalls

SpecSeed == Init /\ [][NextSeed]_vars

\* Several tasks, for the reads that list them; deleteCategory leaves the
\* tasks of a category behind.
ListCalls ==
    \/ \E t \in ListTaskInputs, now \in 1..MaxTime :
           \/ MemCreateTaskUpTo(MaxListTasks, 0, t, <<>>, now)
           \/ DbCreateTaskUpTo(MaxListTasks, 0, t, <<>>, now)
    \/ \E id \in ListTaskIdInputs, u \in ListTaskUpdates : UpdateTask(id, u)
    \/ \E id \in ListTaskIdInputs : DeleteTask(id)
    \/ \E id \in {3} : DeleteCategory(id)

NextLists == SeedOnce \/ ListCalls

SpecLists == Init /\ [][NextLists]_vars

\* Calls on ids that exist, that never existed and that were deleted.
NotFoundCalls ==
    \/ \E now \in 1..MaxTime :
           CreateTask(CHOOSE t \in TaskInputs : t.name = "Ship spec", <<Draft>>, now)
    \/ \E id \in TaskIdInputs : UpdateTask(id, [completed |-> TRUE])
    \/ \E id \in TaskIdInputs : DeleteTask(id)
    \/ \E id \in SubtaskIdInputs, c \in BOOLEAN : UpdateSubtask(id, c)
    \/ \E id \in SubtaskIdInputs : DeleteSubtask(id)
    \/ \E id \in CategoryIdInputs : UpdateCategory(id, [color |-> "#FFFFFF"])
    \/ \E id \in CategoryIdInputs : DeleteCategory(id)

NextNotFound == SeedOnce \/ NotFoundCalls

SpecNotFound == Init /\ [][NextNotFound]_vars

\* Every write of the contract, each followed by the reads of what it wrote.
ContractCalls ==
    \/ \E c \in {k \in CategoryInputs : k.slug = "work"} : CreateCategory(c)
    \/ \E id \in CategoryIdInputs : UpdateCategory(id, [color |-> "#FFFFFF"])
    \/ \E id \in CategoryIdInputs : DeleteCategory(id)
    \/ \E now \in 1..MaxTime :
           CreateTask(CHOOSE t \in TaskInputs : t.name = "Ship spec", <<Draft>>, now)
    \/ \E u \in TaskUpdates : UpdateTask(1, u)
    \/ DeleteTask(1)
    \/ CreateSubtask([taskId |-> 1, description |-> Draft])
    \/ \E c \in BOOLEAN : UpdateSubtask(1, c)
    \/ DeleteSubtask(1)

NextContract == SeedOnce \/ ContractCalls

SpecContract == Init /\ [][NextContract]_vars

\* The start of the process on the relational backend, step by step.  The
\* constructor calls initializeDatabase and does not wait for it
\* (dbStorage.ts:23): the routine runs up to its first await, the select, and
\* the constructor returns.  From then on request handlers run between the
\* steps of the routine.  seedRuns = 1 says that the routine has been started.
DbInitializeDatabaseSelect ==
    /\ backend = "db"
    /\ seedRuns = 0
    /\ seedRuns' = 1
    /\ Called("seed", [run |-> 1], FALSE, <<>>)
    /\ UNCHANGED <<backend, memVars, dbVars, clock>>

\* One turn of the loop of initializeDatabase.  The select found the table
\* empty (the store is new), and only the loop inserts categories here, so
\* the serial tells the next default to insert.
DbInitializeDatabaseInsert ==
    LET st == DbCreateCategoryIn(DbCategoryStore, defaultCategories[dbCategoriesSerial])
    IN  /\ backend = "db"
        /\ seedRuns = 1
        /\ dbCategoriesSerial <= Len(defaultCategories)
        /\ dbCategoriesSerial' = st.serial
        /\ dbCategories' = st.table
        /\ Called("createCategory",
                  [category |-> defaultCategories[dbCategoriesSerial]], st.threw,
                  IF st.threw THEN <<>> ELSE <<st.table[Len(st.table)]>>)
        /\ UNCHANGED <<backend, memVars, dbTasks, dbSubtasks, dbTasksSerial,
                       dbSubtasksSerial, seedRuns, clock>>

\* The in-memory routine awaits no I/O: its six createCategory calls are over
\* before the event loop hands the first request to a handler.
NextStartup ==
    \/ seedRuns = 0 /\ MemInitializeDefaultCategories
    \/ DbInitializeDatabaseSelect
    \/ DbInitializeDatabaseInsert
    \/ TaskCalls

SpecStartup == Init /\ [][NextStartup]_vars

\* One handler on the relational backend, its calls taken one statement at a
\* time: an insert of createTask can fail, and the process can end between
\* two statements.
StepTask == CHOOSE t \in TaskInputs : t.name = "Ship spec"

StepDescriptionInputs == { <<Draft>>, <<Draft, Review>> }

NextFailures ==
    \/ SeedOnce
    \/ \E t \in TaskInputs, d \in StepDescriptionInputs, now \in 1..MaxTime :
           DbCreateTaskInsertTask(1, t, d, now)
    \/ DbCreateTaskInsertSubtask(1)
    \/ DbCreateTaskInsertSubtaskFails(1)
    \/ DbCreateTaskSelectCategory(1)
    \/ \E id \in TaskIdInputs : DbDeleteTaskSubtasks(1, id)
    \/ DbDeleteTaskRow(1)
    \/ Crash

SpecFailures == Init /\ [][NextFailures]_vars

\* Two handlers of the in-memory backend, each in one updateTask of task 1,
\* interleaved at the awaits.
ConcurrentTaskUpdates == {
    [completed |-> TRUE],
    [name |-> "Renamed"],
    [name |-> "Other", priority |-> "high"] }

\* The one updateTask of the handler.
MemUpdateTaskOnce(h, id, taskUpdate) ==
    /\ calls[h] = Idle
    /\ MemUpdateTaskSet(h, id, taskUpdate)

NextUpdates ==
    \/ SeedOnce
    \/ \E now \in 1..MaxTime : CreateTask(StepTask, <<Draft>>, now)
    \/ \E h \in Handlers, u \in ConcurrentTaskUpdates : MemUpdateTaskOnce(h, 1, u)
    \/ \E h \in Handlers : MemUpdateTaskGetCategory(h)
    \/ \E h \in Handlers : MemUpdateTaskReturn(h)

SpecUpdates == Init /\ [][NextUpdates]_vars

\* Two handlers of the relational backend: one creates and updates tasks,
\* the other deletes them, each call taken one statement at a time.
RaceTaskUpdates == { [completed |-> TRUE], [name |-> "Renamed"] }

NextRaces ==
    \/ SeedOnce
    \/ \E d \in StepDescriptionInputs, now \in 1..MaxTime :
           DbCreateTaskInsertTask(1, StepTask, d, now)
    \/ DbCreateTaskInsertSubtask(1)
    \/ DbCreateTaskSelectCategory(1)
    \/ \E id \in 1..MaxTasks, u \in RaceTaskUpdates : DbUpdateTaskUpdate(1, id, u)
    \/ DbUpdateTaskSelectTask(1)
    \/ DbUpdateTaskSelectSubtasks(1)
    \/ DbUpdateTaskSelectCategory(1)
    \/ \E id \in 1..MaxTasks : DbDeleteTaskSubtasks(2, id)
    \/ DbDeleteTaskRow(2)

SpecRaces == Init /\ [][NextRaces]_vars

\* An in-memory store and a relational store side by side, both new: every
\* call is made on the one and on the other, and `last` holds what each
\* returned.
InitBoth ==
    /\ backend = "both"
    /\ EmptyStores

BothSeed ==
    LET st == DbSeedFrom(DbCategoryStore, 1)
    IN  /\ backend = "both"
        /\ seedRuns = 0
        /\ seedRuns' = 1
        /\ MemSetCategoryStore(MemSeedFrom(MemCategoryStore, 1))
        /\ dbCategoriesSerial' = st.serial
        /\ dbCategories' = st.table
        /\ Called("seed", [run |-> 1], FALSE, <<>>)
        /\ UNCHANGED <<backend, tasks, subtasks, taskCurrentId, subtaskCurrentId,
                       dbTasks, dbSubtasks, dbTasksSerial, dbSubtasksSerial, clock>>

\* createTask on both stores.  No call here changes the id of a task, so the
\* insert into tasks finds its id free.
BothCreateTask(insertTask, subtaskDescriptions, now) ==
    LET task == MemNewTask(taskCurrentId, insertTask, now)
        st == MemCreateSubtasksFrom(MemSubtaskStore, task.id, subtaskDescriptions, 1)
        row == DbNewTask(dbTasksSerial, insertTask, now)
        dst == DbCreateSubtasksFrom(DbSubtaskStore, row.id, subtaskDescriptions, 1)
    IN  /\ backend = "both"
        /\ seedRuns > 0
        /\ taskCurrentId <= MaxTasks
        /\ dst.serial <= MaxSubtasks + 1
        /\ now \in clock..MaxTime
        /\ clock' = now
        /\ taskCurrentId' = taskCurrentId + 1
        /\ tasks' = MapSet(tasks, task.id, task)
        /\ subtasks' = st.subtasks
        /\ subtaskCurrentId' = st.subtaskCurrentId
        /\ dbTasksSerial' = dbTasksSerial + 1
        /\ dbTasks' = Append(dbTasks, row)
        /\ dbSubtasks' = dst.table
        /\ dbSubtasksSerial' = dst.serial
        /\ Called("createTask",
                  [task |-> insertTask, subtasks |-> subtaskDescriptions], FALSE,
                  [mem |-> <<Spread(task, [subtasks |-> st.created,
                                           category |-> MemGetCategory(task.categorySlug)])>>,
                   db |-> <<Spread(row, [subtasks |-> dst.created,
                                         category |-> DbGetCategory(row.categorySlug)])>>])
        /\ UNCHANGED <<backend, categories, categorySlugToIdMap, categoryCurrentId,
                       dbCategories, dbCategoriesSerial, seedRuns>>

BothDeleteTask(id) ==
    /\ backend = "both"
    /\ seedRuns > 0
    /\ IF MapHas(tasks, id)
       THEN /\ subtasks' = MemDeleteSubtasksOf(subtasks, id)
            /\ tasks' = MapDelete(tasks, id)
       ELSE UNCHANGED <<tasks, subtasks>>
    /\ dbSubtasks' = DbDeleteSubtasksOf(dbSubtasks, id)
    /\ dbTasks' = DeleteWhereId(dbTasks, id)
    /\ Called("deleteTask", [id |-> id], FALSE,
              [mem |-> <<MapHas(tasks, id)>>, db |-> <<RowOf(dbTasks, id) # 0>>])
    /\ UNCHANGED <<backend, categories, categorySlugToIdMap, categoryCurrentId,
                   taskCurrentId, subtaskCurrentId, dbCategories, dbCategoriesSerial,
                   dbTasksSerial, dbSubtasksSerial, seedRuns, clock>>

BothCreateSubtask(subtask) ==
    LET st == MemCreateSubtaskIn(MemSubtaskStore, subtask)
        dst == DbCreateSubtaskIn(DbSubtaskStore, subtask)
    IN  /\ backend = "both"
        /\ seedRuns > 0
        /\ subtaskCurrentId <= MaxSubtasks
        /\ dbSubtasksSerial <= MaxSubtasks
        /\ subtasks' = st.subtasks
        /\ subtaskCurrentId' = st.subtaskCurrentId
        /\ dbSubtasks' = dst.table
        /\ dbSubtasksSerial' = dst.serial
        /\ Called("createSubtask", [subtask |-> subtask], FALSE,
                  [mem |-> st.created, db |-> dst.created])
        /\ UNCHANGED <<backend, categories, categorySlugToIdMap, tasks,
                       categoryCurrentId, taskCurrentId, dbCategories, dbTasks,
                       dbCategoriesSerial, dbTasksSerial, seedRuns, clock>>

NextBoth ==
    \/ BothSeed
    \/ \E t \in TaskInputs, d \in DescriptionInputs, now \in 1..MaxTime :
           BothCreateTask(t, d, now)
    \/ \E id \in TaskIdInputs : BothDeleteTask(id)
    \/ \E id \in TaskIdInputs : BothCreateSubtask([taskId |-> id, description |-> Draft])

SpecBoth == InitBoth /\ [][NextBoth]_vars

(***************************************************************************)
(* The routes of server/routes.ts that hand a task to the storage.  A      *)
(* request that a route rejects is answered 400 and calls no storage       *)
(* method; a request it accepts is the storage call.                       *)
(***************************************************************************)
\* insertTaskSchema: the columns of tasks without id and createdAt
\* (schema.ts:53-61).  The columns declared notNull without a default are
\* required; frequency is text, so the schema accepts any string for it.
InsertTaskSchemaRequired ==
    {"name", "briefDescription", "categorySlug", "frequency", "dueDate"}

InsertTaskSchemaKeys ==
    InsertTaskSchemaRequired \cup {"detailedDescription", "priority", "completed"}

InsertTaskSchemaSuccess(body) == InsertTaskSchemaRequired \subseteq DOMAIN body

\* taskValidation.data: zod drops the keys the schema does not name.
InsertTaskSchemaData(body) ==
    [f \in (DOMAIN body) \cap InsertTaskSchemaKeys |-> body[f]]

Responded(route, args, status) ==
    /\ last' = [op |-> route, args |-> args, threw |-> FALSE, result |-> <<status>>]
    /\ UNCHANGED <<backend, memVars, dbVars, seedRuns, clock, calls>>

RouteTaskBodies == {
    [name |-> "Ship spec", briefDescription |-> "b", categorySlug |-> "work",
     frequency |-> "weekly", dueDate |-> "d1"],
    [name |-> "Pay rent", briefDescription |-> "b", categorySlug |-> "personal",
     frequency |-> "monthly", dueDate |-> "d1", id |-> 9],
    [name |-> "No frequency", briefDescription |-> "b", categorySlug |-> "work",
     dueDate |-> "d1"] }

RoutePatchBodies == { [completed |-> TRUE], [frequency |-> "yearly"] }

RouteFrequencies == {"daily", "weekly", "monthly"}

\* GET /api/tasks/frequency/:frequency
GetTasksByFrequencyRoute(frequency) ==
    /\ seedRuns > 0
    /\ IF frequency # "daily" /\ frequency # "weekly"
       THEN Responded("GET /api/tasks/frequency/:frequency",
                      [frequency |-> frequency], "400")
       ELSE /\ Called("getTasksByFrequency", [frequency |-> frequency], FALSE,
                      GetTasksByFrequency(frequency))
            /\ UNCHANGED <<backend, memVars, dbVars, seedRuns, clock>>

\* POST /api/tasks
PostTaskRoute(body, subtaskDescriptions, now) ==
    \/ /\ seedRuns > 0
       /\ ~InsertTaskSchemaSuccess(body)
       /\ Responded("POST /api/tasks", [task |-> body], "400")
    \/ /\ InsertTaskSchemaSuccess(body)
       /\ CreateTask(InsertTaskSchemaData(body), subtaskDescriptions, now)

\* PATCH /api/tasks/:id
PatchTaskRoute(id, body) == UpdateTask(id, body)

\* DELETE /api/tasks/:id
DeleteTaskRoute(id) == DeleteTask(id)

NextRoutes ==
    \/ SeedOnce
    \/ \E f \in RouteFrequencies : GetTasksByFrequencyRoute(f)
    \/ \E body \in RouteTaskBodies, d \in {<<>>, <<Draft>>}, now \in 1..MaxTime :
           PostTaskRoute(body, d, now)
    \/ \E id \in TaskIdInputs, body \in RoutePatchBodies : PatchTaskRoute(id, body)
    \/ \E id \in TaskIdInputs : DeleteTaskRoute(id)

SpecRoutes == Init /\ [][NextRoutes]_vars

(***************************************************************************)
(* Properties.                                                             *)
(***************************************************************************)
CategoryInUse(id) ==
    /\ CategoryById(id) # <<>>
    /\ \E i \in 1..Len(StoredTasks) :
           StoredTasks[i].categorySlug = CategoryById(id)[1].slug

\* C1: deleteCategory of a category that a stored task references returns
\* false, and the category is still listed by getCategories and still returned
\* by getCategory if it was before.
C1_DeleteCategoryRefusedWhileInUse ==
    [][\A id \in CategoryIdInputs :
          (last'.op = "deleteCategory" /\ last'.args.id = id /\ CategoryInUse(id))
          => /\ last'.result = <<FALSE>>
             /\ CategoryById(id)[1] \in Range(GetCategories)'
             /\ GetCategory(CategoryById(id)[1].slug) = CategoryById(id)
                => GetCategory(CategoryById(id)[1].slug)' = CategoryById(id)]_vars

\* C2: deleteTask(X) of a task that exists leaves getSubtasks(X) empty and
\* getTask(X) undefined, whatever calls came before.
C2_CascadeDelete ==
    [][\A id \in TaskIdInputs :
          (last'.op = "deleteTask" /\ last'.args.id = id /\ GetTask(id) # <<>>)
          => (GetSubtasks(id)' = <<>> /\ GetTask(id)' = <<>>)]_vars

\* A task was deleted after subtasks had been created, and none is left.
C2_Witness ==
    /\ last.op = "deleteTask"
    /\ last.result = <<TRUE>>
    /\ (IF backend = "mem" THEN subtaskCurrentId ELSE dbSubtasksSerial) > 2
    /\ StoredSubtasks = <<>>
    /\ GetTask(last.args.id) = <<>>

NonBlank(description) == Truthy(Trim(description))

\* C3: after createTask(T, D), getTask(T.id).subtasks holds one subtask per
\* member of D that is not blank after trimming, in the order of D, each
\* with completed = false.
C3_CreateTaskStoresNonBlankSubtasks ==
    (last.op = "createTask" /\ ~last.threw)
    => LET got == GetTask(last.result[1].id)
       IN  /\ got # <<>>
           /\ [i \in 1..Len(got[1].subtasks) |-> got[1].subtasks[i].description]
                  = SelectSeq(last.args.subtasks, NonBlank)
           /\ \A i \in 1..Len(got[1].subtasks) : got[1].subtasks[i].completed = FALSE

\* C4: no two categories of the in-memory store have the same slug.
C4_MemSlugUnique ==
    backend = "mem"
    => \A i, j \in 1..Len(MemGetCategories) :
          i # j => MemGetCategories[i].slug # MemGetCategories[j].slug

\* C5: after the seeding routine has run twice on a store that was empty,
\* the store holds exactly the six default categories.
C5_SeedingIdempotent ==
    seedRuns = MaxSeedRuns
    => /\ Len(GetCategories) = Len(defaultCategories)
       /\ {GetCategories[i].slug : i \in 1..Len(GetCategories)} = DefaultSlugs

\* C6: the taskId of every stored subtask is the id of a task getTask resolves.
C6_SubtaskOwned ==
    \A i \in 1..Len(StoredSubtasks) : GetTask(StoredSubtasks[i].taskId) # <<>>

\* C7: updateTask(id, {completed: true}) on an existing task leaves every
\* field of getTask(id) but completed, the subtasks included, as it was, and
\* completed is true.
C7_UpdateCompletedFrame ==
    [][(last'.op = "updateTask" /\ last'.args.update = [completed |-> TRUE])
       => \A id \in TaskIdInputs :
             (last'.args.id = id /\ GetTask(id) # <<>>)
             => GetTask(id)' = <<[GetTask(id)[1] EXCEPT !.completed = TRUE]>>]_vars

\* A task created with its own priority and subtasks was completed by the update.
C7_Witness ==
    /\ last.op = "updateTask"
    /\ last.args.update = [completed |-> TRUE]
    /\ last.result # <<>>
    /\ last.result[1].completed = TRUE
    /\ last.result[1].name = "Ship spec"
    /\ last.result[1].subtasks # <<>>

\* C8: no updateTask changes the createdAt that getTask returns for the task.
C8_CreatedAtSetOnce ==
    [][\A id \in TaskIdInputs :
          (/\ last'.op = "updateTask"
           /\ last'.args.id = id
           /\ GetTask(id) # <<>>
           /\ GetTask(id)' # <<>>)
          => GetTask(id)'[1].createdAt = GetTask(id)[1].createdAt]_vars

\* C9: createCategory on the in-memory backend with a slug that a category
\* already has does not fail, and afterwards getCategory still returns the
\* older category for its slug and the new category for its own.
C9_MemCollisionDisambiguated ==
    [][\A c \in CategoryInputs :
          (/\ backend = "mem"
           /\ last'.op = "createCategory"
           /\ last'.args.category = c
           /\ GetCategory(c.slug) # <<>>)
          => /\ ~last'.threw
             /\ last'.result # <<>>
             /\ GetCategory(GetCategory(c.slug)[1].slug)' = GetCategory(c.slug)
             /\ \A k \in Range(GetCategories)' :
                    k.id = last'.result[1].id => GetCategory(k.slug)' = <<k>>]_vars

StoredWithFrequency(frequency) ==
    {j \in 1..Len(StoredTasks) : StoredTasks[j].frequency = frequency}

\* C11: getTasksByFrequency(f) returns each stored task of frequency f once,
\* as getTasks returns it, and no task of another frequency; when every
\* stored task is daily or weekly the two results together are getTasks().
C11_FrequencyFilterExact ==
    /\ \A f \in Frequencies \cup {"monthly"} :
          LET r == GetTasksByFrequency(f)
          IN  /\ \A i \in 1..Len(r) : r[i].frequency = f /\ r[i] \in Range(GetTasks)
              /\ Len(r) = Cardinality(StoredWithFrequency(f))
              /\ \A j \in StoredWithFrequency(f) :
                     Cardinality({i \in 1..Len(r) : r[i].id = StoredTasks[j].id}) = 1
    /\ (\A j \in 1..Len(StoredTasks) : StoredTasks[j].frequency \in Frequencies)
       => /\ Range(GetTasksByFrequency("daily")) \cup Range(GetTasksByFrequency("weekly"))
                 = Range(GetTasks)
          /\ Len(GetTasksByFrequency("daily")) + Len(GetTasksByFrequency("weekly"))
                 = Len(GetTasks)

\* Three tasks are stored, daily, weekly and daily in the order of creation.
C11_Witness ==
    /\ Len(StoredTasks) = 3
    /\ [i \in 1..3 |-> StoredTasks[i].frequency] = <<"daily", "weekly", "daily">>
    /\ Len(GetTasksByFrequency("daily")) = 2
    /\ Len(GetTasksByFrequency("weekly")) = 1

\* getTask and getCategory return undefined for what matches nothing.
ReadsOfNothingAbsent ==
    /\ \A id \in TaskIdInputs : ~TaskStored(id) => GetTask(id) = <<>>
    /\ \A slug \in SlugInputs : ~SlugStored(slug) => GetCategory(slug) = <<>>

\* C12: a call on an id or slug that matches nothing does not throw; getTask,
\* getCategory, updateCategory, updateTask and updateSubtask return undefined
\* and deleteCategory, deleteTask and deleteSubtask return false.
C12_NotFoundIsAValue ==
    [][/\ ReadsOfNothingAbsent'
       /\ \A id \in CategoryIdInputs :
             (last'.op \in {"updateCategory", "deleteCategory"}
              /\ last'.args.id = id /\ ~CategoryStored(id))
             => /\ ~last'.threw
                /\ last'.result =
                       IF last'.op = "updateCategory" THEN <<>> ELSE <<FALSE>>
       /\ \A id \in TaskIdInputs :
             (last'.op \in {"updateTask", "deleteTask"}
              /\ last'.args.id = id /\ ~TaskStored(id))
             => /\ ~last'.threw
                /\ last'.result = IF last'.op = "updateTask" THEN <<>> ELSE <<FALSE>>
       /\ \A id \in SubtaskIdInputs :
             (last'.op \in {"updateSubtask", "deleteSubtask"}
              /\ last'.args.id = id /\ ~SubtaskStored(id))
             => /\ ~last'.threw
                /\ last'.result =
                       IF last'.op = "updateSubtask" THEN <<>> ELSE <<FALSE>>]_vars

\* updateTask was called on the id of a task that had been created and
\* deleted, and returned undefined.
C12_Witness ==
    /\ last.op = "updateTask"
    /\ last.args.id = 1
    /\ (IF backend = "mem" THEN taskCurrentId ELSE dbTasksSerial) > 1
    /\ ~TaskStored(1)
    /\ ~last.threw
    /\ last.result = <<>>

KeyAfterUpdate(id, update) ==
    IF backend = "db" /\ "id" \in DOMAIN update THEN update.id ELSE id

\* createTask returned: getTask of the returned id has the returned fields,
\* and getSubtasks holds the returned subtasks.
ReadAfterCreateTask ==
    (last'.op = "createTask" /\ ~last'.threw)
    => \A id \in TaskIdInputs :
          last'.result[1].id = id
          => /\ GetTask(id)' # <<>>
             /\ [GetTask(id)'[1] EXCEPT !.subtasks = <<>>]
                    = [last'.result[1] EXCEPT !.subtasks = <<>>]
             /\ Range(last'.result[1].subtasks) \subseteq Range(GetSubtasks(id)')

\* updateTask wrote: getTask has the values of the partial, and is what the
\* call returned if it returned a task.
ReadAfterUpdateTask ==
    \A id \in TaskIdInputs, u \in TaskUpdates, k \in TaskIdInputs :
        (/\ last'.op = "updateTask" /\ ~last'.threw
         /\ last'.args.id = id /\ last'.args.update = u
         /\ TaskStored(id) /\ k = KeyAfterUpdate(id, u))
        => /\ GetTask(k)' # <<>>
           /\ \A f \in DOMAIN u : GetTask(k)'[1][f] = u[f]
           /\ last'.result # <<>> => GetTask(id)' = last'.result

ReadAfterSubtaskWrite ==
    (last'.op \in {"createSubtask", "updateSubtask"} /\ last'.result # <<>>)
    => /\ \A id \in TaskIdInputs :
             last'.result[1].taskId = id
             => last'.result[1] \in Range(GetSubtasks(id)')
       /\ last'.op = "updateSubtask"
          => last'.result[1].completed = last'.args.completed

ReadAfterCategoryWrite ==
    (last'.op \in {"createCategory", "updateCategory"} /\ last'.result # <<>>)
    => \A slug \in SlugInputs :
          last'.result[1].slug = slug => GetCategory(slug)' = last'.result

ReadAfterDelete ==
    /\ \A id \in TaskIdInputs :
          (last'.op = "deleteTask" /\ last'.args.id = id
           /\ last'.result = <<TRUE>>)
          => GetTask(id)' = <<>>
    /\ \A id \in SubtaskIdInputs :
          (last'.op = "deleteSubtask" /\ last'.args.id = id
           /\ last'.result = <<TRUE>>)
          => \A t \in TaskIdInputs :
                \A i \in 1..Len(GetSubtasks(t)') : GetSubtasks(t)'[i].id # id
    /\ \A id \in CategoryIdInputs, slug \in SlugInputs :
          (/\ last'.op = "deleteCategory" /\ last'.args.id = id
           /\ last'.result = <<TRUE>>
           /\ CategoryStored(id) /\ CategoryById(id)[1].slug = slug)
          => GetCategory(slug)' = <<>>

\* C14: once a write has returned, the next read of what it wrote (getTask,
\* getSubtasks, getCategory) returns the written values, and once a delete
\* has returned true the next read returns undefined.
C14_ReadAfterWrite ==
    [][/\ ReadAfterCreateTask
       /\ ReadAfterUpdateTask
       /\ ReadAfterSubtaskWrite
       /\ ReadAfterCategoryWrite
       /\ ReadAfterDelete]_vars

DefaultsStored == \A slug \in DefaultSlugs : SlugStored(slug)

\* C15: every createTask on a newly constructed backend runs in a state in
\* which the six default categories are stored.
C15_SeededBeforeTaskCalls ==
    [][last'.op = "createTask" => DefaultsStored]_vars

\* The tasks of a list whose categorySlug matches no category have no category.
DanglingAbsentIn(list) ==
    \A i \in 1..Len(list) : ~SlugStored(list[i].categorySlug) => list[i].category = <<>>

\* C16: createTask with a categorySlug that matches no category returns the
\* task, with category undefined; getTask, getTasks and getTasksByFrequency
\* return every stored task whose categorySlug matches no category, with
\* category undefined.
C16_DanglingCategoryTolerated ==
    /\ (last.op = "createTask" /\ ~SlugStored(last.args.task.categorySlug))
       => /\ ~last.threw
          /\ last.result # <<>>
          /\ last.result[1].category = <<>>
          /\ GetTask(last.result[1].id) = last.result
    /\ \A j \in 1..Len(StoredTasks) :
          /\ GetTask(StoredTasks[j].id) # <<>>
          /\ DanglingAbsentIn(GetTask(StoredTasks[j].id))
          /\ \E i \in 1..Len(GetTasks) : GetTasks[i].id = StoredTasks[j].id
          /\ \E i \in 1..Len(GetTasksByFrequency(StoredTasks[j].frequency)) :
                 GetTasksByFrequency(StoredTasks[j].frequency)[i].id = StoredTasks[j].id
    /\ DanglingAbsentIn(GetTasks)
    /\ \A f \in Frequencies : DanglingAbsentIn(GetTasksByFrequency(f))

\* A task was created for a category that never existed, another task has
\* lost its category to deleteCategory, and getTasks returns both without
\* category.
C16_Witness ==
    /\ last.op = "createTask"
    /\ last.args.task.categorySlug = "nowhere"
    /\ last.result[1].category = <<>>
    /\ \E j \in 1..Len(StoredTasks) : StoredTasks[j].categorySlug = "health"
    /\ ~SlugStored("health")
    /\ Len(GetTasks) >= 2
    /\ \A i \in 1..Len(GetTasks) : GetTasks[i].category = <<>>

\* C17: the routes hand no frequency but "daily" and "weekly" to the
\* storage, and every stored task is daily or weekly.
C17_FrequencyValidatedByRoutes ==
    /\ \A j \in 1..Len(StoredTasks) : StoredTasks[j].frequency \in Frequencies
    /\ last.op = "getTasksByFrequency" => last.args.frequency \in Frequencies
    /\ last.op = "createTask" => last.args.task.frequency \in Frequencies
    /\ (last.op = "updateTask" /\ "frequency" \in DOMAIN last.args.update)
       => last.args.update.frequency \in Frequencies

AllCategoryIds == 1..(Len(defaultCategories) + MaxNewCategories + 1)

\* C18: updateCategory(id, partial) on a stored category leaves the category
\* as it was but for the fields of the partial (and as it was when the call
\* throws); every other category, every task and every subtask is as
\* before, and so is what getTask returns for the tasks of other slugs.  On
\* an id that matches nothing it returns undefined and the store is unchanged.
C18_UpdateCategoryFrame ==
    [][\A id \in CategoryIdInputs, u \in CategoryUpdates :
          (last'.op = "updateCategory" /\ last'.args.id = id /\ last'.args.update = u)
          => IF ~CategoryStored(id)
             THEN /\ ~last'.threw
                  /\ last'.result = <<>>
                  /\ UNCHANGED <<backend, memVars, dbVars, seedRuns, clock>>
             ELSE /\ CategoryById(id)' =
                         IF last'.threw THEN CategoryById(id)
                         ELSE <<Spread(CategoryById(id)[1], u)>>
                  /\ ~last'.threw => last'.result = CategoryById(id)'
                  /\ Len(GetCategories') = Len(GetCategories)
                  /\ \A k \in AllCategoryIds \ {id} : CategoryById(k)' = CategoryById(k)
                  /\ StoredTasks' = StoredTasks
                  /\ StoredSubtasks' = StoredSubtasks
                  /\ \A t \in TaskIdInputs :
                         (/\ TaskStored(t)
                          /\ GetTask(t)[1].categorySlug # CategoryById(id)[1].slug
                          /\ GetTask(t)[1].categorySlug # CategoryById(id)'[1].slug)
                         => GetTask(t)' = GetTask(t)]_vars

\* The slug of a category was changed while a task and a created category
\* were stored.
C18_Witness ==
    /\ last.op = "updateCategory"
    /\ last.args.update = [slug |-> "x"]
    /\ last.result # <<>>
    /\ last.result[1].slug = "x"
    /\ last.result[1].name = "Work Projects"
    /\ StoredTasks # <<>>
    /\ Len(GetCategories) > Len(defaultCategories)

\* C19: when deleteCategory(id) returns true the category of the id is in
\* getCategories no more and getCategory of its slug does not return it;
\* when it returns false getCategories and getCategory of every slug are as
\* before the call.
C19_DeleteCategoryWhole ==
    [][\A id \in CategoryIdInputs :
          (last'.op = "deleteCategory" /\ last'.args.id = id)
          => /\ last'.result = <<CategoryStored(id)>>
             /\ last'.result = <<TRUE>>
                => /\ CategoryById(id)[1] \notin Range(GetCategories')
                   /\ \A i \in 1..Len(GetCategories') : GetCategories'[i].id # id
                   /\ \A slug \in SlugInputs :
                          CategoryById(id)[1].slug = slug
                          => GetCategory(slug)' # CategoryById(id)
             /\ last'.result = <<FALSE>>
                => /\ GetCategories' = GetCategories
                   /\ \A slug \in SlugInputs : GetCategory(slug)' = GetCategory(slug)]_vars

\* A category that getCategory returned for its slug was deleted, and
\* getCategory of the slug returns nothing.
C19_Witness ==
    /\ last.op = "deleteCategory"
    /\ last.args.id = 1
    /\ last.result = <<TRUE>>
    /\ ~CategoryStored(1)
    /\ GetCategory("work") = <<>>
    /\ Len(GetCategories) = Len(defaultCategories) - 1

\* C20: a task created without priority has priority "medium", a task
\* created without completed has completed = false, in what createTask
\* returns and in what getTask reads, and every subtask createTask created
\* has completed = false.
C20_CreationDefaults ==
    (last.op = "createTask" /\ ~last.threw)
    => LET insertTask == last.args.task
           created == last.result[1]
           read == GetTask(created.id)
       IN  /\ read # <<>>
           /\ "priority" \notin DOMAIN insertTask
              => (created.priority = "medium" /\ read[1].priority = "medium")
           /\ "completed" \notin DOMAIN insertTask
              => (created.completed = FALSE /\ read[1].completed = FALSE)
           /\ \A i \in 1..Len(created.subtasks) :
                  /\ created.subtasks[i].completed = FALSE
                  /\ created.subtasks[i] \in Range(read[1].subtasks)

\* A task was created without priority and without completed, with a subtask.
C20_Witness ==
    /\ last.op = "createTask"
    /\ ~last.threw
    /\ DOMAIN last.args.task \cap {"priority", "completed"} = {}
    /\ last.result[1].priority = "medium"
    /\ last.result[1].completed = FALSE
    /\ last.result[1].subtasks # <<>>

\* Every entry of the map is stored under the id of its value.
KeyedByOwnId(m) == \A i \in 1..Len(m) : m[i].key = m[i].val.id

\* C25: in the in-memory backend every entry of the tasks, subtasks and
\* categories maps has a key equal to the id field of its value, whatever
\* partial updateTask or updateCategory received.
C25_MemStoredUnderOwnId ==
    backend = "mem"
    => (KeyedByOwnId(tasks) /\ KeyedByOwnId(subtasks) /\ KeyedByOwnId(categories))

\* C26: in the in-memory backend categorySlugToIdMap maps slug s to id i
\* exactly when the category stored under i exists and has slug s.
C26_MemSlugIndexConsistent ==
    backend = "mem"
    => \A s \in SlugInputs, i \in AllCategoryIds :
          (MapGet(categorySlugToIdMap, s) = <<i>>)
          <=> (MapHas(categories, i) /\ MapGet(categories, i)[1].slug = s)

\* C27: deleteTask of an id with no task returns false and leaves the stored
\* tasks and the stored subtasks, those whose taskId is the id included, as
\* they were, on both backends.
C27_DeleteMissingTaskFrame ==
    [][\A id \in TaskIdInputs :
          (last'.op = "deleteTask" /\ last'.args.id = id /\ ~TaskStored(id))
          => /\ last'.result = <<FALSE>>
             /\ StoredTasks' = StoredTasks
             /\ StoredSubtasks' = StoredSubtasks]_vars

\* C30: if getTask(t).category is the category C before
\* updateCategory(C.id, {slug: s'}), it is still C after the call.
C30_RenameKeepsTasksAttached ==
    [][\A id \in CategoryIdInputs, t \in TaskIdInputs :
          LET before == GetTask(t)
              after == GetTask(t)'
          IN  (/\ last'.op = "updateCategory"
               /\ last'.args.id = id
               /\ "slug" \in DOMAIN last'.args.update
               /\ ~last'.threw
               /\ before # <<>>
               /\ before[1].category # <<>>
               /\ before[1].category[1].id = id)
              => (/\ after # <<>>
                  /\ after[1].category # <<>>
                  /\ after[1].category[1].id = id)]_vars

\* The subtasks of the task id that the store holds, as their descriptions.
DbDescriptionsOf(table, id) ==
    [i \in 1..Len(DbGetSubtasksIn(table, id)) |-> DbGetSubtasksIn(table, id)[i].description]

\* A call of handler h was abandoned by a crash while it waited at pc.
Abandoned(h, op, pc) ==
    calls[h].op = op /\ calls[h].pc = "crashed" /\ calls[h].at = pc

\* C21 as stated: when the process ends between the two statements of the
\* relational deleteTask of a task that had subtasks, the store holds
\* orphaned subtasks of that task.
C21_CrashOrphansSubtasks ==
    \A h \in Handlers :
        (Abandoned(h, "deleteTask", "task") /\ calls[h].found /\ calls[h].deleted > 0)
        => /\ ~HasRow(dbTasks, calls[h].args.id)
           /\ DbGetSubtasksIn(dbSubtasks, calls[h].args.id) # <<>>

\* C21 amended: the first statement of the relational deleteTask leaves the
\* tasks table as it is and removes every subtask of the id and no other;
\* a crash changes no table.  So a crash between the two statements leaves
\* the task stored with none of its subtasks, and orphans none.
C21_CrashLeavesTaskWithoutSubtasks ==
    [][/\ \A h \in Handlers :
             (Free(h) /\ InFlight(h, "deleteTask", "task")')
             => /\ dbTasks' = dbTasks
                /\ dbSubtasks' = DbDeleteSubtasksOf(dbSubtasks, calls'[h].args.id)
                /\ DbGetSubtasksIn(dbSubtasks', calls'[h].args.id) = <<>>
       /\ (\E h \in Handlers : calls[h].pc # "crashed" /\ calls'[h].pc = "crashed")
             => /\ UNCHANGED dbVars
                /\ \A h \in Handlers :
                      InFlight(h, "deleteTask", "task")
                      => /\ Abandoned(h, "deleteTask", "task")'
                         /\ DbGetSubtasksIn(dbSubtasks', calls[h].args.id) = <<>>
                         /\ HasRow(dbTasks, calls[h].args.id)
                            => HasRow(dbTasks', calls[h].args.id)]_vars

\* The process ended between the two statements of the deleteTask of a task
\* that had subtasks: the task is stored, its subtasks are not.
C21_Witness ==
    /\ last.op = "crash"
    /\ Abandoned(1, "deleteTask", "task")
    /\ calls[1].found
    /\ calls[1].deleted > 0
    /\ HasRow(dbTasks, calls[1].args.id)
    /\ DbGetSubtasksIn(dbSubtasks, calls[1].args.id) = <<>>

\* C22: when the insert of the k-th of n subtasks fails in the relational
\* createTask, the call throws, and the task row and the k-1 subtasks
\* inserted before are in the store: a task with fewer subtasks than asked.
C22_CreateTaskNotAtomic ==
    \A h \in Handlers :
        (InFlight(h, "createTask", "done") /\ calls[h].threw
         /\ calls[h].i >= 1 /\ last.op = "createTask" /\ last.threw)
        => LET id == calls[h].task.id
               k == calls[h].i
               n == Len(calls[h].args.subtasks)
           IN  /\ last.result = <<>>
               /\ k \in 1..n
               /\ HasRow(dbTasks, id)
               /\ dbTasks[RowOf(dbTasks, id)] = calls[h].task
               /\ DbDescriptionsOf(dbSubtasks, id) = SubSeq(calls[h].args.subtasks, 1, k - 1)
               /\ Len(DbGetSubtasksIn(dbSubtasks, id)) < n

\* The second of two inserts failed: the task is stored with one subtask.
C22_Witness ==
    /\ InFlight(1, "createTask", "done")
    /\ calls[1].threw
    /\ last.op = "createTask"
    /\ calls[1].i = 2
    /\ Len(calls[1].args.subtasks) = 2
    /\ HasRow(dbTasks, calls[1].task.id)
    /\ Len(DbGetSubtasksIn(dbSubtasks, calls[1].task.id)) = 1

\* The updateTask of handler h has written its task.
MemWritten(h) == calls[h].op = "updateTask" /\ "updatedTask" \in DOMAIN calls[h]

\* C23: when two updateTask calls on one task id of the in-memory backend
\* run concurrently, the stored task is the result of one call applied to
\* the task as it was and the other applied to that result, and a field
\* written by only one of them has the value that call wrote.
C23_MemConcurrentUpdatesSerial ==
    (backend = "mem" /\ MemWritten(1) /\ MemWritten(2)
     /\ calls[1].args.id = calls[2].args.id)
    => \E first, second \in Handlers :
          /\ first # second
          /\ calls[second].existingTask
                 = Spread(calls[first].existingTask, calls[first].args.update)
          /\ MapGet(tasks, calls[1].args.id)
                 = <<Spread(calls[second].existingTask, calls[second].args.update)>>
          /\ \A h \in Handlers :
                \A f \in DOMAIN calls[h].args.update :
                   (\A g \in Handlers \ {h} : f \notin DOMAIN calls[g].args.update)
                   => MapGet(tasks, calls[1].args.id)[1][f] = calls[h].args.update[f]

\* Two updates that were both in flight have returned: one wrote completed,
\* the other the name, and the stored task has both.
C23_Witness ==
    /\ backend = "mem"
    /\ InFlight(1, "updateTask", "done")
    /\ InFlight(2, "updateTask", "done")
    /\ MemWritten(1)
    /\ MemWritten(2)
    /\ calls[1].args.update = [completed |-> TRUE]
    /\ calls[2].args.update = [name |-> "Renamed"]
    /\ calls[2].taskSubtasks # <<>>
    /\ ~calls[2].existingTask.completed
    /\ MapGet(tasks, 1)[1].completed
    /\ MapGet(tasks, 1)[1].name = "Renamed"

\* C28: a relational createTask with n > 0 subtasks and a deleteTask of its
\* task id have both returned, and both statements of the delete ran after
\* the insert of the task and before the insert of the first subtask (the
\* delete found the task, met no subtask of it, and deleted its row).  Then
\* no subtask of that task id is stored, and getTask finds the task that
\* createTask returned.
C28_CreateDeleteRaceLeavesNothing ==
    \A c, d \in Handlers :
        (/\ backend = "db"
         /\ InFlight(c, "createTask", "done")
         /\ ~calls[c].threw
         /\ Len(calls[c].args.subtasks) > 0
         /\ InFlight(d, "deleteTask", "done")
         /\ calls[d].args.id = calls[c].task.id
         /\ calls[d].found
         /\ calls[d].deleted = 0
         /\ calls[d].left = 0
         /\ calls[d].result = <<TRUE>>)
        => /\ DbGetSubtasksIn(dbSubtasks, calls[c].task.id) = <<>>
           /\ last.op = "createTask" => DbGetTask(calls[c].task.id) # <<>>

\* C29: a relational updateTask whose update statement changed a row does
\* not return undefined.
C29_UpdateTaskAbsentOnlyIfNoRow ==
    \A h \in Handlers :
        (/\ backend = "db"
         /\ InFlight(h, "updateTask", "done")
         /\ ~calls[h].threw
         /\ calls[h].rows > 0)
        => calls[h].result # <<>>

\* A returned task with its subtasks as a set, the order of the list left out.
UpToOrder(result) ==
    IF result = <<>> THEN result
    ELSE <<[result[1] EXCEPT !.subtasks = Range(@)]>>

\* C24: an in-memory and a relational store that start equal and receive the
\* same calls return the same results and hold the same categories, tasks
\* and subtasks, the order of lists left out.
C24_BackendsAgree ==
    backend = "both"
    => /\ last.op = "createTask"
          => UpToOrder(last.result.mem) = UpToOrder(last.result.db)
       /\ last.op \in {"deleteTask", "createSubtask"}
          => last.result.mem = last.result.db
       /\ Range(MapValues(categories)) = Range(dbCategories)
       /\ Range(MapValues(tasks)) = Range(dbTasks)
       /\ Range(MapValues(subtasks)) = Range(dbSubtasks)

====
